---- MODULE Spec2Model ----
(***************************************************************************)
(* One order book of the exchange engine (order_book.c, engine.c): the two *)
(* AVL price-level indices with their FIFO queues, and the operations      *)
(* engine_submit_order and engine_cancel_order that run under the book's   *)
(* lock.  Prices are doubles in the program and small integers here;       *)
(* quantities are uint32_t: the sums and differences the program forms     *)
(* stay within 0..MaxQty * MaxOrders here, far from the wrap at 2^32, and   *)
(* are written as plain integer arithmetic.  A price level is a            *)
(* record with its left and right subtrees; the doubly linked order list   *)
(* of a level is the sequence q (head first).  The parent pointer of a     *)
(* level is written by the program but never read, and is left out.        *)
(* A function of the program is split into several operators where a       *)
(* value it computes once is used many times: the value is then passed on  *)
(* as a parameter.                                                         *)
(*                                                                         *)
(* Around the book stand the engine's ticker table (engine.c), the market  *)
(* maker's tick (market_maker.c), the three threads of main.c with the     *)
(* book locks and the client-table lock, one client session of network.c   *)
(* with the wire protocol of protocol.c, and the random number generator   *)
(* of math_model.c, whose 32-bit state is kept as two 16-bit halves.  Each *)
(* has a specification of its own over the same variables.                 *)
(***************************************************************************)
EXTENDS Integers, Sequences, FiniteSets, TLC

MaxPrice == 3
MaxQty == 2
MaxOrders == 4
MaxBookPrice == 4
MaxBookOrders == 4
MaxEnginePrice == 2
MaxEngineOrders == 2
MAX_TICKERS == 16
MaxLevels == 2
MaxFair == 6
MaxTicks == 4
NumBooks == 2
MaxSessions == 2
CallsPerTick == 2
MaxOps == 2
MaxLineOrders == 3
MaxCalls == 4
PRICE_FLOOR == 10
MaxGetLevels == 2
MaxViewOrders == 3
BufferSize == 4
TempSize == 3
MaxStream == 6

NIL == [nil |-> TRUE]

Prices == 1..MaxPrice
Quantities == 1..MaxQty
Sides == {"BUY", "SELL"}
Types == {"MARKET", "LIMIT"}

VARIABLES book, last, aborted, engine, elast, mm, thr, net, nlast, rng, rx

vars == <<book, last, aborted, engine, elast, mm, thr, net, nlast, rng, rx>>

(* What the operations on the one book leave alone. *)
beyondBook == <<engine, elast, mm, thr, net, nlast, rng, rx>>

(* What the operations of the engine on its table of books leave alone. *)
beyondEngine == <<book, last, mm, thr, net, nlast, rng, rx>>

(* What a market-maker tick on the one book leaves alone. *)
beyondMaker == <<engine, elast, thr, net, nlast, rng, rx>>

(* What the steps of the two threads on the gates leave alone. *)
beyondThreads == <<book, last, aborted, engine, elast, mm, net, nlast, rng, rx>>

(* What the handlers of the network thread leave alone. *)
beyondSession == <<book, last, elast, mm, thr, rng, rx>>

(* What the calls of the random source and the price process leave alone. *)
beyondRng == <<book, last, aborted, engine, elast, mm, thr, net, nlast, rx>>

(* What the receive buffer of a session leaves alone. *)
beyondBuffer == <<book, last, aborted, engine, elast, mm, thr, net, nlast, rng>>

Abs(x) == IF x < 0 THEN -x ELSE x

Min(a, b) == IF a < b THEN a ELSE b

----------------------------------------------------------------------------
(* order_book.c: orders and price levels *)

order_create(id, side, type, price, quantity) ==
    [id |-> id, side |-> side, type |-> type, price |-> price,
     quantity |-> quantity, filled_qty |-> 0, status |-> "NEW", freed |-> FALSE]

price_level_create(price) ==
    [price |-> price, total_quantity |-> 0, q |-> <<>>,
     left |-> NIL, right |-> NIL, height |-> 1]

(* price_level_destroy frees every order still linked at the level.  The   *)
(* result is what a pointer that still refers to those orders reads        *)
(* afterwards: the memory is released (freed), and its first word, the id, *)
(* is either intact or overwritten by the allocator (clob) with a value no *)
(* issued id equals (here the negated id).                                 *)
price_level_destroy(q, clob) ==
    [i \in 1..Len(q) |->
        [q[i] EXCEPT !.freed = TRUE,
                     !.id = IF clob THEN -Abs(q[i].id) ELSE q[i].id]]

(* TRUE when releasing the orders of q releases one already released. *)
AnyFreed(q) == \E i \in 1..Len(q) : q[i].freed

get_height(node) == IF node = NIL THEN 0 ELSE node.height

get_balance(node) ==
    IF node = NIL THEN 0 ELSE get_height(node.left) - get_height(node.right)

(* The stored height left as it was. *)
update_height_none(node) == node

update_height(node) ==
    IF node = NIL THEN node
    ELSE [node EXCEPT !.height =
             (IF get_height(node.left) > get_height(node.right)
              THEN get_height(node.left) ELSE get_height(node.right)) + 1]

rotate_right(y) ==
    update_height([y.left EXCEPT !.right = update_height([y EXCEPT !.left = y.left.right])])

rotate_left(x) ==
    update_height([x.right EXCEPT !.left = update_height([x EXCEPT !.right = x.right.left])])

(* The four rebalancing cases that end avl_insert and avl_delete. *)
rebalance_by(node, balance) ==
    IF balance > 1 /\ get_balance(node.left) >= 0 THEN rotate_right(node)
    ELSE IF balance > 1
    THEN rotate_right([node EXCEPT !.left = rotate_left(node.left)])
    ELSE IF balance < -1 /\ get_balance(node.right) <= 0 THEN rotate_left(node)
    ELSE IF balance < -1
    THEN rotate_left([node EXCEPT !.right = rotate_right(node.right)])
    ELSE node

avl_rebalance(node) == rebalance_by(node, get_balance(node))

go_left_ascending(is_bid, price, node_price) == price < node_price

(* Bids are ordered with the higher price to the left, asks with the lower *)
(* price to the left, so that the leftmost level is the best of its side.  *)
go_left(is_bid, price, node_price) ==
    IF is_bid THEN price > node_price ELSE price < node_price

RECURSIVE avl_insert(_, _, _)
avl_insert(node, new_level, is_bid) ==
    IF node = NIL THEN new_level
    ELSE avl_rebalance(update_height(
             IF go_left(is_bid, new_level.price, node.price)
             THEN [node EXCEPT !.left = avl_insert(node.left, new_level, is_bid)]
             ELSE [node EXCEPT !.right = avl_insert(node.right, new_level, is_bid)]))

RECURSIVE avl_find(_, _, _)
avl_find(node, price, is_bid) ==
    IF node = NIL THEN NIL
    ELSE IF price = node.price THEN node
    ELSE IF go_left(is_bid, price, node.price) THEN avl_find(node.left, price, is_bid)
    ELSE avl_find(node.right, price, is_bid)

RECURSIVE avl_get_best(_)
avl_get_best(node) ==
    IF node = NIL THEN NIL
    ELSE IF node.left # NIL THEN avl_get_best(node.left)
    ELSE node

avl_min(node) == avl_get_best(node)

(* A write through the level pointer that avl_find returned: the level at  *)
(* price gets the queue q and the cached total.                            *)
RECURSIVE level_store(_, _, _, _, _)
level_store(node, price, is_bid, q, total) ==
    IF node = NIL THEN NIL
    ELSE IF price = node.price THEN [node EXCEPT !.q = q, !.total_quantity = total]
    ELSE IF go_left(is_bid, price, node.price)
         THEN [node EXCEPT !.left = level_store(node.left, price, is_bid, q, total)]
    ELSE [node EXCEPT !.right = level_store(node.right, price, is_bid, q, total)]

(* A write through the pointer to the leftmost level. *)
RECURSIVE best_store(_, _, _)
best_store(node, q, total) ==
    IF node = NIL THEN NIL
    ELSE IF node.left # NIL THEN [node EXCEPT !.left = best_store(node.left, q, total)]
    ELSE [node EXCEPT !.q = q, !.total_quantity = total]

RECURSIVE avl_delete(_, _, _, _)

(* Lines 253-261.  A level with two children takes over its in-order       *)
(* successor's price, total and queue pointers, and the successor node is  *)
(* then deleted from the right subtree, which destroys the successor with  *)
(* price_level_destroy: the orders the level now points to are released.   *)
delete_two_children(root, successor, is_bid, clob) ==
    [root EXCEPT !.price = successor.price,
                 !.total_quantity = successor.total_quantity,
                 !.q = price_level_destroy(successor.q, clob),
                 !.right = avl_delete(root.right, successor.price, is_bid, clob)]

avl_delete(root, price, is_bid, clob) ==
    IF root = NIL THEN NIL
    ELSE IF price = root.price /\ (root.left = NIL \/ root.right = NIL)
    THEN IF root.left # NIL THEN root.left ELSE root.right
    ELSE avl_rebalance(update_height(
             IF price = root.price
             THEN delete_two_children(root, avl_min(root.right), is_bid, clob)
             ELSE IF go_left(is_bid, price, root.price)
             THEN [root EXCEPT !.left = avl_delete(root.left, price, is_bid, clob)]
             ELSE [root EXCEPT !.right = avl_delete(root.right, price, is_bid, clob)]))

(* The orders price_level_destroy releases inside avl_delete(root, price). *)
RECURSIVE avl_delete_released(_, _, _)
avl_delete_released(root, price, is_bid) ==
    IF root = NIL THEN <<>>
    ELSE IF price = root.price
    THEN IF root.left = NIL \/ root.right = NIL
         THEN root.q
         ELSE avl_min(root.right).q
    ELSE IF go_left(is_bid, price, root.price)
    THEN avl_delete_released(root.left, price, is_bid)
    ELSE avl_delete_released(root.right, price, is_bid)

(* In-order walk (left, node, right): the levels of an index, best first. *)
RECURSIVE InOrder(_)
InOrder(node) ==
    IF node = NIL THEN <<>>
    ELSE InOrder(node.left) \o <<node>> \o InOrder(node.right)

order_book_create ==
    [bids |-> NIL, asks |-> NIL, next_order_id |-> 1,
     best_bid |-> 0, best_ask |-> 0,
     last_trade_price |-> 0, last_trade_qty |-> 0]

best_price_of(best) == IF best # NIL THEN best.price ELSE 0

order_book_get_best_bid(b) == best_price_of(avl_get_best(b.bids))

order_book_get_best_ask(b) == best_price_of(avl_get_best(b.asks))

(* PriceLevel** root = is_bid ? &book->bids : &book->asks *)
side_root(b, is_bid) == IF is_bid THEN b.bids ELSE b.asks

set_root(b, is_bid, root) ==
    IF is_bid THEN [b EXCEPT !.bids = root] ELSE [b EXCEPT !.asks = root]

(* The cached best prices left as they were. *)
refresh_best_stale(b, is_bid) == b

(* "Update best prices": the cached best of one side is re-read from the   *)
(* side's index (add lines 365-371, cancel lines 419-425).                 *)
refresh_best(b, is_bid) ==
    IF is_bid THEN [b EXCEPT !.best_bid = order_book_get_best_bid(b)]
    ELSE [b EXCEPT !.best_ask = order_book_get_best_ask(b)]

(* order_book_get_bids / order_book_get_asks (lines 469-500).  The caller's *)
(* local arr holds the address of the buffer from malloc; collect_levels   *)
(* is handed &arr, the address of that local, as its array of level        *)
(* pointers.  arr is the local after the walk, beyond the level pointers   *)
(* the walk wrote behind the local, outside it.                            *)
Buffer == [buffer |-> TRUE]

Undefined == [undefined |-> TRUE]

(* Lines 473-476: the node is stored at index count, count goes up by 1. *)
collect_store(node, acc, max_levels) ==
    IF acc.count < max_levels
    THEN [count |-> acc.count + 1,
          arr |-> IF acc.count = 0 THEN node ELSE acc.arr,
          beyond |-> IF acc.count = 0 THEN acc.beyond ELSE Append(acc.beyond, node)]
    ELSE acc

RECURSIVE collect_levels(_, _, _)
collect_levels(node, acc, max_levels) ==
    IF node = NIL \/ acc.count >= max_levels THEN acc
    ELSE collect_levels(node.right,
                        collect_store(node,
                                      collect_levels(node.left, acc, max_levels),
                                      max_levels),
                        max_levels)

get_levels(root, max_levels) ==
    IF root = NIL THEN [count |-> 0, arr |-> NIL, beyond |-> <<>>]
    ELSE collect_levels(root, [count |-> 0, arr |-> Buffer, beyond |-> <<>>],
                        max_levels)

order_book_get_bids(b, max_levels) == get_levels(b.bids, max_levels)

order_book_get_asks(b, max_levels) == get_levels(b.asks, max_levels)

(* A PriceLevel as its reader sees it. *)
level_read(level) ==
    [price |-> level.price, total_quantity |-> level.total_quantity, q |-> level.q]

(* The count elements the caller reads through the pointer returned:       *)
(* element 0 is the object the pointer names, the elements after it lie    *)
(* behind that object (rest).                                              *)
levels_read(r, rest) ==
    IF r.count = 0 THEN <<>> ELSE <<level_read(r.arr)>> \o rest

----------------------------------------------------------------------------
(* order_book_add_order *)

fifo_append_atHead(q, order) == <<order>> \o q

(* Lines 355-362: the order is linked behind the tail of its level (FIFO). *)
fifo_append(q, order) == Append(q, order)

(* Lines 355-371: link the order at level, which root1 holds, add its      *)
(* quantity to the level's total, refresh the cached best.                 *)
add_order_store(b, order, level, root1) ==
    refresh_best(
        set_root(b, order.side = "BUY",
                 level_store(root1, order.price, order.side = "BUY",
                             fifo_append(level.q, order),
                             level.total_quantity + order.quantity)),
        order.side = "BUY")

(* Lines 345-353: the level avl_find found, or else a new level inserted. *)
add_order_at(b, order, found) ==
    IF found # NIL
    THEN add_order_store(b, order, found, side_root(b, order.side = "BUY"))
    ELSE add_order_store(b, order, price_level_create(order.price),
                         avl_insert(side_root(b, order.side = "BUY"),
                                    price_level_create(order.price),
                                    order.side = "BUY"))

add_order_link(b, order) ==
    add_order_at(b, order,
                 avl_find(side_root(b, order.side = "BUY"), order.price,
                          order.side = "BUY"))

order_book_add_order_linksMarket(b, side, type, price, quantity) ==
    [book |-> add_order_link([b EXCEPT !.next_order_id = @ + 1],
                             order_create(b.next_order_id, side, type, price, quantity)),
     order |-> order_create(b.next_order_id, side, type, price, quantity)]

order_book_add_order_marketKeepsId(b, side, type, price, quantity) ==
    [book |-> IF type = "MARKET" THEN b
              ELSE add_order_link([b EXCEPT !.next_order_id = @ + 1],
                                  order_create(b.next_order_id, side, type, price, quantity)),
     order |-> order_create(b.next_order_id, side, type, price, quantity)]

(* Returns the book and the created order.  A market order consumes an id  *)
(* and is returned without being linked anywhere.                          *)
order_book_add_order(b, side, type, price, quantity) ==
    [book |-> IF type = "MARKET" THEN [b EXCEPT !.next_order_id = @ + 1]
              ELSE add_order_link([b EXCEPT !.next_order_id = @ + 1],
                                  order_create(b.next_order_id, side, type, price, quantity)),
     order |-> order_create(b.next_order_id, side, type, price, quantity)]

----------------------------------------------------------------------------
(* engine_match_orders *)

price_acceptable_anyPrice(is_buy, type, price, best_price) == ~(best_price <= 0)

(* Lines 130-146: the loop goes on only if an opposing best price exists   *)
(* and, for a limit order, that price is acceptable.                       *)
price_acceptable(is_buy, type, price, best_price) ==
    /\ ~(best_price <= 0)
    /\ IF is_buy THEN ~(type = "LIMIT" /\ best_price > price)
       ELSE ~(type = "LIMIT" /\ best_price < price)

fill_status_strict(filled_qty, quantity) ==
    IF filled_qty > quantity THEN "FILLED" ELSE "PARTIAL"

(* The status an execution report carries, and the incoming order takes. *)
fill_status(filled_qty, quantity) ==
    IF filled_qty >= quantity THEN "FILLED" ELSE "PARTIAL"

ExecutionReport_unitQuantity(order_id, match_id, price, quantity, status) ==
    [order_id |-> order_id, match_id |-> match_id, price |-> price,
     quantity |-> 1, status |-> status]

ExecutionReport(order_id, match_id, price, quantity, status) ==
    [order_id |-> order_id, match_id |-> match_id, price |-> price,
     quantity |-> quantity, status |-> status]

(* Lines 159-161. *)
fill_quantity(remaining_incoming, remaining_resting) ==
    IF remaining_incoming < remaining_resting THEN remaining_incoming
    ELSE remaining_resting

(* Lines 164-203 for a fill of fill_qty: the two orders after the fill and *)
(* the two reports, the aggressor's first.  A resting order that is not    *)
(* completely filled keeps its status.                                     *)
trade(incoming, resting, price, fill_qty) ==
    [fill_qty |-> fill_qty,
     incoming |-> [incoming EXCEPT
                      !.filled_qty = @ + fill_qty,
                      !.status = fill_status(incoming.filled_qty + fill_qty,
                                             incoming.quantity)],
     resting |-> [resting EXCEPT
                     !.filled_qty = @ + fill_qty,
                     !.status = IF resting.filled_qty + fill_qty >= resting.quantity
                                THEN "FILLED" ELSE @],
     reports |-> <<ExecutionReport(incoming.id, resting.id, price, fill_qty,
                                   fill_status(incoming.filled_qty + fill_qty,
                                               incoming.quantity)),
                   ExecutionReport(resting.id, incoming.id, price, fill_qty,
                                   fill_status(resting.filled_qty + fill_qty,
                                               resting.quantity))>>]

execute_trade(incoming, resting, price) ==
    trade(incoming, resting, price,
          fill_quantity(incoming.quantity - incoming.filled_qty,
                        resting.quantity - resting.filled_qty))

RemoveAt(q, i) == SubSeq(q, 1, i - 1) \o SubSeq(q, i + 1, Len(q))

(* Lines 200-215 after the trade t with the order at st.i: a completely    *)
(* filled resting order is unlinked and freed; resting moves to the next.  *)
(* st.dfree records that order_destroy released an order already released. *)
(* The last trade of the book left as it was. *)
level_after_trade_keepsLastTrade(st, price, t, done) ==
    [q |-> IF done THEN RemoveAt(st.q, st.i) ELSE [st.q EXCEPT ![st.i] = t.resting],
     i |-> IF done THEN st.i ELSE st.i + 1,
     incoming |-> t.incoming,
     total |-> st.total - t.fill_qty,
     reports |-> st.reports \o t.reports,
     last_trade_price |-> st.last_trade_price,
     last_trade_qty |-> st.last_trade_qty,
     dfree |-> st.dfree \/ (done /\ st.q[st.i].freed)]

level_after_trade(st, price, t, done) ==
    [q |-> IF done THEN RemoveAt(st.q, st.i) ELSE [st.q EXCEPT ![st.i] = t.resting],
     i |-> IF done THEN st.i ELSE st.i + 1,
     incoming |-> t.incoming,
     total |-> st.total - t.fill_qty,
     reports |-> st.reports \o t.reports,
     last_trade_price |-> price,
     last_trade_qty |-> t.fill_qty,
     dfree |-> st.dfree \/ (done /\ st.q[st.i].freed)]

match_step(st, price, t) ==
    level_after_trade(st, price, t, t.resting.filled_qty >= t.resting.quantity)

(* The inner loop over one level (lines 157-216).  st.i is the position of *)
(* resting in the queue; resting is null when st.i is past the tail.       *)
RECURSIVE match_level(_, _)
match_level(st, price) ==
    IF st.i > Len(st.q) \/ ~(st.incoming.quantity > st.incoming.filled_qty) THEN st
    ELSE match_level(match_step(st, price,
                                execute_trade(st.incoming, st.q[st.i], price)),
                     price)

(* Lines 218-229: an emptied level is not deleted from the index; the      *)
(* whole index root is cleared.                                            *)
match_remove_empty(root, q, total) ==
    IF q = <<>> THEN NIL ELSE best_store(root, q, total)

(* The book after the walk st of the best opposing level: last trade, the  *)
(* level's queue and total, and the cached best if the level emptied.      *)
book_after_level(b, is_buy, st) ==
    IF st.q = <<>>
    THEN refresh_best(
             set_root([b EXCEPT !.last_trade_price = st.last_trade_price,
                                !.last_trade_qty = st.last_trade_qty],
                      ~is_buy,
                      match_remove_empty(side_root(b, ~is_buy), st.q, st.total)),
             ~is_buy)
    ELSE set_root([b EXCEPT !.last_trade_price = st.last_trade_price,
                            !.last_trade_qty = st.last_trade_qty],
                  ~is_buy,
                  match_remove_empty(side_root(b, ~is_buy), st.q, st.total))

RECURSIVE match_loop(_)

(* Line 232: the outer loop ends when resting is null after the walk. *)
match_next(r, st) ==
    IF st.i > Len(st.q)
    THEN [book |-> book_after_level(r.book, r.incoming.side = "BUY", st),
          incoming |-> st.incoming, reports |-> st.reports, dfree |-> st.dfree]
    ELSE match_loop(
           [book |-> book_after_level(r.book, r.incoming.side = "BUY", st),
            incoming |-> st.incoming, reports |-> st.reports, dfree |-> st.dfree])

(* Lines 148-216: the walk of the leftmost opposing level. *)
match_best(r, level) ==
    IF level = NIL THEN r
    ELSE match_next(r, match_level(
             [q |-> level.q, i |-> 1, incoming |-> r.incoming,
              total |-> level.total_quantity, reports |-> r.reports,
              last_trade_price |-> r.book.last_trade_price,
              last_trade_qty |-> r.book.last_trade_qty,
              dfree |-> r.dfree], level.price))

(* The outer loop.  r = [book, incoming, reports, dfree]. *)
match_loop(r) ==
    IF ~(r.incoming.quantity > r.incoming.filled_qty) THEN r
    ELSE IF ~price_acceptable(r.incoming.side = "BUY", r.incoming.type,
                              r.incoming.price,
                              IF r.incoming.side = "BUY"
                              THEN order_book_get_best_ask(r.book)
                              ELSE order_book_get_best_bid(r.book))
    THEN r
    ELSE match_best(r, avl_get_best(side_root(r.book, r.incoming.side # "BUY")))

engine_match_orders(b, incoming) ==
    match_loop([book |-> b, incoming |-> incoming, reports |-> <<>>, dfree |-> FALSE])

----------------------------------------------------------------------------
(* engine_submit_order, engine_cancel_order *)

(* The position of the first order with the given id in a queue, 0 if none. *)
RECURSIVE queue_find(_, _, _)
queue_find(q, order_id, i) ==
    IF i > Len(q) THEN 0
    ELSE IF q[i].id = order_id THEN i
    ELSE queue_find(q, order_id, i + 1)

incoming_store_at(b, incoming, level) ==
    set_root(b, incoming.side = "BUY",
             level_store(side_root(b, incoming.side = "BUY"), incoming.price,
                         incoming.side = "BUY",
                         [level.q EXCEPT ![queue_find(level.q, incoming.id, 1)] = incoming],
                         level.total_quantity))

(* The incoming limit order is the object order_book_add_order linked into *)
(* its own side; what the matcher wrote to it is seen through the queue.   *)
incoming_store(b, incoming) ==
    incoming_store_at(b, incoming,
                      avl_find(side_root(b, incoming.side = "BUY"), incoming.price,
                               incoming.side = "BUY"))

(* Lines 261-265: an unfilled market order is marked cancelled and freed.  *)
submit_dispose(order) ==
    IF order.type = "MARKET" /\ order.filled_qty < order.quantity
    THEN [order EXCEPT !.status = "CANCELLED", !.freed = TRUE]
    ELSE order

submit_result(m) ==
    [book |-> IF m.incoming.type = "LIMIT" THEN incoming_store(m.book, m.incoming)
              ELSE m.book,
     reports |-> m.reports,
     order |-> submit_dispose(m.incoming),
     dfree |-> m.dfree]

submit_match(a) == submit_result(engine_match_orders(a.book, a.order))

(* Returns the book, the reports of the result, the order as the call left *)
(* it, and whether an order was released twice on the way.                 *)
engine_submit_order(b, side, type, price, quantity) ==
    submit_match(order_book_add_order(b, side, type, price, quantity))

(* The first level, in the in-order walk of an index, that queues an order *)
(* with the given id; NIL if none.                                         *)
RECURSIVE walk_find(_, _, _)
walk_find(levels, order_id, k) ==
    IF k > Len(levels) THEN NIL
    ELSE IF queue_find(levels[k].q, order_id, 1) > 0 THEN levels[k]
    ELSE walk_find(levels, order_id, k + 1)

cancel_remove_empty_keepsLevel(b, is_bid, price, clob) == b

(* Lines 411-426: the emptied level is deleted from its index and the      *)
(* cached best price of that side is refreshed.                            *)
cancel_remove_empty(b, is_bid, price, clob) ==
    refresh_best(set_root(b, is_bid, avl_delete(side_root(b, is_bid), price, is_bid, clob)),
                 is_bid)

(* Lines 411-429, b1 being the book with the order unlinked. *)
cancel_unlinked(b1, is_bid, price, order, emptied, clob) ==
    [book |-> IF emptied THEN cancel_remove_empty(b1, is_bid, price, clob) ELSE b1,
     ok |-> TRUE,
     dfree |-> \/ order.freed
               \/ emptied /\ AnyFreed(avl_delete_released(side_root(b1, is_bid),
                                                          price, is_bid))]

(* Lines 399-430 for the order at position i of level on one side: unlink, *)
(* reduce the total, delete the level if emptied, free the order.          *)
cancel_at(b, is_bid, level, i, clob) ==
    cancel_unlinked(
        set_root(b, is_bid,
                 level_store(side_root(b, is_bid), level.price, is_bid,
                             RemoveAt(level.q, i),
                             level.total_quantity
                                 - (level.q[i].quantity - level.q[i].filled_qty))),
        is_bid, level.price, level.q[i], Len(level.q) = 1, clob)

cancel_found(b, order_id, clob, lb, la) ==
    IF lb # NIL THEN cancel_at(b, TRUE, lb, queue_find(lb.q, order_id, 1), clob)
    ELSE IF la # NIL THEN cancel_at(b, FALSE, la, queue_find(la.q, order_id, 1), clob)
    ELSE [book |-> b, ok |-> FALSE, dfree |-> FALSE]

(* The bid index is walked first, then the ask index. *)
order_book_cancel_order(b, order_id, clob) ==
    cancel_found(b, order_id, clob,
                 walk_find(InOrder(b.bids), order_id, 1),
                 walk_find(InOrder(b.asks), order_id, 1))

two_children(level) ==
    /\ level # NIL
    /\ Len(level.q) = 1
    /\ level.left # NIL
    /\ level.right # NIL

(* TRUE when cancelling order_id empties a level that has two children, so *)
(* that avl_delete releases orders that stay linked.                       *)
cancel_releases(b, order_id) ==
    IF walk_find(InOrder(b.bids), order_id, 1) # NIL
    THEN two_children(walk_find(InOrder(b.bids), order_id, 1))
    ELSE two_children(walk_find(InOrder(b.asks), order_id, 1))

engine_cancel_order(b, order_id, clob) == order_book_cancel_order(b, order_id, clob)

----------------------------------------------------------------------------
(* engine.c: the table of books.  engine.books[i] is books[i - 1] of the   *)
(* program, a book with its symbol.  Symbols have at most 15 characters,   *)
(* which order_book_create copies whole.                                   *)

Tickers == {"AAPL", "MSFT"}

engine_create == [books |-> <<>>, num_tickers |-> 0]

(* The loop of engine_get_ticker_index from index i on: the 0-based index  *)
(* of the first book with the symbol, -1 if none.                          *)
RECURSIVE ticker_scan(_, _, _)
ticker_scan(e, ticker, i) ==
    IF ~(i < e.num_tickers) THEN -1
    ELSE IF e.books[i + 1].ticker = ticker THEN i
    ELSE ticker_scan(e, ticker, i + 1)

engine_get_ticker_index_firstBook(e, ticker) ==
    IF e.num_tickers > 0 THEN 0 ELSE -1

engine_get_ticker_index(e, ticker) == ticker_scan(e, ticker, 0)

engine_add_ticker_noDuplicateCheck(e, ticker, initial_price) ==
    IF e.num_tickers >= MAX_TICKERS THEN [engine |-> e, ret |-> FALSE]
    ELSE [engine |->
             [books |-> Append(e.books,
                               [ticker |-> ticker,
                                book |-> [order_book_create EXCEPT
                                             !.last_trade_price = initial_price]]),
              num_tickers |-> e.num_tickers + 1],
          ret |-> TRUE]

(* Returns the engine and the function's result. *)
engine_add_ticker(e, ticker, initial_price) ==
    IF e.num_tickers >= MAX_TICKERS THEN [engine |-> e, ret |-> FALSE]
    ELSE IF \E i \in 1..e.num_tickers : e.books[i].ticker = ticker
    THEN [engine |-> e, ret |-> FALSE]
    ELSE [engine |->
             [books |-> Append(e.books,
                               [ticker |-> ticker,
                                book |-> [order_book_create EXCEPT
                                             !.last_trade_price = initial_price]]),
              num_tickers |-> e.num_tickers + 1],
          ret |-> TRUE]

(* engine_submit_order from its entry: lines 240-246 resolve the book, and *)
(* the rest runs on that book.  ret is FALSE for the null result; locked   *)
(* holds the index of every book the call locks (order_book_lock).         *)
submit_resolved(e, idx, r) ==
    [engine |-> [e EXCEPT !.books[idx + 1].book = r.book],
     ret |-> TRUE, reports |-> r.reports, dfree |-> r.dfree, locked |-> {idx}]

engine_submit_at(e, idx, side, type, price, quantity) ==
    IF idx < 0
    THEN [engine |-> e, ret |-> FALSE, reports |-> <<>>, dfree |-> FALSE,
          locked |-> {}]
    ELSE submit_resolved(e, idx,
             engine_submit_order(e.books[idx + 1].book, side, type, price, quantity))

engine_submit(e, ticker, side, type, price, quantity) ==
    engine_submit_at(e, engine_get_ticker_index(e, ticker), side, type, price, quantity)

(* engine_cancel_order from its entry (lines 274-283). *)
cancel_resolved(e, idx, r) ==
    [engine |-> [e EXCEPT !.books[idx + 1].book = r.book],
     ret |-> r.ok, dfree |-> r.dfree, locked |-> {idx}]

engine_cancel_at(e, idx, order_id, clob) ==
    IF idx < 0 THEN [engine |-> e, ret |-> FALSE, dfree |-> FALSE, locked |-> {}]
    ELSE cancel_resolved(e, idx,
             engine_cancel_order(e.books[idx + 1].book, order_id, clob))

engine_cancel(e, ticker, order_id, clob) ==
    engine_cancel_at(e, engine_get_ticker_index(e, ticker), order_id, clob)

(* Symbols that are listed at start-up and that no request names. *)
ListedSymbols ==
    <<"SYM01", "SYM02", "SYM03", "SYM04", "SYM05", "SYM06", "SYM07", "SYM08",
      "SYM09", "SYM10", "SYM11", "SYM12", "SYM13", "SYM14", "SYM15", "SYM16">>

(* The engine after the first n of them were added. *)
RECURSIVE engine_with(_)
engine_with(n) ==
    IF n = 0 THEN engine_create
    ELSE engine_add_ticker(engine_with(n - 1), ListedSymbols[n], 1).engine

----------------------------------------------------------------------------
(* market_maker.c: one agent quoting one book.  Prices are in units of the *)
(* level spacing (5 basis points of the fair price); the half spread       *)
(* (spread_bps 20, halved) is two of them.                                 *)

HalfSpread == 2

LevelSpacing == 1

market_maker_create(order_size, num_levels) ==
    [order_size |-> order_size, num_levels |-> num_levels,
     bid_orders |-> [i \in 1..num_levels |-> 0],
     ask_orders |-> [i \in 1..num_levels |-> 0]]

(* w = [book, mm, dfree]: the agent's book and the agent while a tick runs. *)
quote_cancelled(w, r) ==
    [w EXCEPT !.book = r.book, !.dfree = @ \/ r.dfree]

cancel_bid(w, i, clob) ==
    IF w.mm.bid_orders[i + 1] > 0
    THEN [quote_cancelled(w, engine_cancel_order(w.book, w.mm.bid_orders[i + 1], clob))
             EXCEPT !.mm.bid_orders[i + 1] = 0]
    ELSE w

cancel_ask(w, i, clob) ==
    IF w.mm.ask_orders[i + 1] > 0
    THEN [quote_cancelled(w, engine_cancel_order(w.book, w.mm.ask_orders[i + 1], clob))
             EXCEPT !.mm.ask_orders[i + 1] = 0]
    ELSE w

(* The loop of market_maker_cancel_all from level i on. *)
RECURSIVE cancel_all_from(_, _, _)
cancel_all_from(w, i, clob) ==
    IF ~(i < w.mm.num_levels) THEN w
    ELSE cancel_all_from(cancel_ask(cancel_bid(w, i, clob), i, clob), i + 1, clob)

market_maker_cancel_all(w, clob) == cancel_all_from(w, 0, clob)

(* Lines 310-327: the result of the submit is destroyed; the id of the     *)
(* order is not stored in bid_orders or ask_orders.                        *)
quote_placed(w, r) ==
    [w EXCEPT !.book = r.book, !.dfree = @ \/ r.dfree]

place_bid(w, fair_price, i) ==
    quote_placed(w, engine_submit_order(w.book, "BUY", "LIMIT",
                                        fair_price - HalfSpread - i * LevelSpacing,
                                        w.mm.order_size))

place_ask(w, fair_price, i) ==
    quote_placed(w, engine_submit_order(w.book, "SELL", "LIMIT",
                                        fair_price + HalfSpread + i * LevelSpacing,
                                        w.mm.order_size))

(* The loop of market_maker_update (lines 306-329) from level i on. *)
RECURSIVE place_quotes(_, _, _)
place_quotes(w, fair_price, i) ==
    IF ~(i < w.mm.num_levels) THEN w
    ELSE place_quotes(place_ask(place_bid(w, fair_price, i), fair_price, i),
                      fair_price, i + 1)

market_maker_update(w, fair_price, clob) ==
    place_quotes(market_maker_cancel_all(w, clob), fair_price, 0)

----------------------------------------------------------------------------
(* main.c, network.c: the simulation thread, the network thread and main,  *)
(* and the gates they take: one per book (OrderBook.lock) and the session  *)
(* table's (NetworkServer.clients_lock).  gate[b] and clients_lock name    *)
(* the thread that holds the gate, "none" if free.                         *)

order_book_lock_noGate(gate, b, t) == gate

order_book_lock(gate, b, t) == [gate EXCEPT ![b] = t]

order_book_unlock_keepsGate(gate, b) == gate

order_book_unlock(gate, b) == [gate EXCEPT ![b] = "none"]

net_mutex_lock_noGate(lock, t) == lock

net_mutex_lock(lock, t) == t

net_mutex_unlock(lock) == "none"

(* pthread_join returns once the thread has left its function. *)
pthread_join_noWait(pc) == TRUE

pthread_join(pc) == pc = "exit"

(* A book as the two threads see it: quote counts the changes of the       *)
(* resting orders and best prices (order_book_add_order,                   *)
(* order_book_cancel_order), trade those of last_trade_price and           *)
(* last_trade_qty (engine_match_orders).  An operation of the network      *)
(* thread advances quote, then trade; the two are equal between            *)
(* operations.                                                             *)
book_view == [quote |-> 0, trade |-> 0]

NoSnapshot == [quote |-> -1, trade |-> -1]

threads_create ==
    [pc |-> [sim |-> "test", net |-> "test", main |-> "join_sim"],
     g_running |-> TRUE,
     k |-> 1, c |-> 0, j |-> 1, nb |-> 1,
     gate |-> [b \in 1..NumBooks |-> "none"],
     clients_lock |-> "none",
     connected |-> [x \in 1..MaxSessions |-> FALSE],
     socket |-> [x \in 1..MaxSessions |-> "invalid"],
     ready |-> [x \in 1..MaxSessions |-> FALSE],
     slot |-> 0,
     seq |-> [b \in 1..NumBooks |-> book_view],
     update |-> NoSnapshot,
     bi |-> 1,
     frames |-> [x \in 1..MaxSessions |-> 0],
     stale |-> FALSE,
     destroyed |-> FALSE]

(* The first free slot of the session table, 0 if none (lines 164-170). *)
RECURSIVE free_slot(_, _)
free_slot(connected, x) ==
    IF x > MaxSessions THEN 0
    ELSE IF ~connected[x] THEN x
    ELSE free_slot(connected, x + 1)

----------------------------------------------------------------------------
(* protocol.c, network.c: the session table and the dispatch of one        *)
(* received line.  A line is what cJSON_Parse and cJSON_GetObjectItem make *)
(* of it: json (it parses), type (the first member named "type", "" if     *)
(* none or not a string), order_type (a later member named "type") and the *)
(* other members.  A socket is its descriptor; open is the set of accepted *)
(* descriptors that are not closed.                                        *)

INVALID_SOCK == -1

string_to_side(str) == IF str = "BUY" THEN "BUY" ELSE "SELL"

string_to_type(str) == IF str = "MARKET" THEN "MARKET" ELSE "LIMIT"

string_to_msg_type(str) ==
    IF str \in {"ORDER_NEW", "ORDER_CANCEL", "MARKET_DATA", "EXECUTION_REPORT",
                "PORTFOLIO_SYNC", "HEARTBEAT"}
    THEN str ELSE "ERROR"

protocol_serialize_execution(report) ==
    [type |-> "EXECUTION_REPORT", order_id |-> report.order_id,
     match_id |-> report.match_id, price |-> report.price,
     quantity |-> report.quantity, status |-> report.status, message |-> ""]

protocol_serialize_error(error) ==
    [type |-> "ERROR", order_id |-> 0, match_id |-> 0, price |-> 0,
     quantity |-> 0, status |-> "", message |-> error]

(* cJSON_GetObjectItem returns the first member of the name: the order     *)
(* type is read from the member that holds the message type.               *)
protocol_parse_order_request(line) ==
    [ticker |-> line.ticker, side |-> string_to_side(line.side),
     type |-> string_to_type(line.type), price |-> line.price,
     quantity |-> line.quantity]

protocol_parse_cancel_request(line) ==
    [ticker |-> line.ticker, order_id |-> line.order_id]

(* ok is the function's result; type is msg->type. *)
protocol_deserialize_message(line) ==
    IF ~line.json \/ line.type = ""
    THEN [ok |-> FALSE, type |-> "ERROR"]
    ELSE [ok |-> TRUE, type |-> string_to_msg_type(line.type)]

network_server_create ==
    [clients |-> [x \in 1..MaxSessions |->
                     [connected |-> FALSE, socket |-> INVALID_SOCK]],
     num_clients |-> 0,
     running |-> FALSE,
     open |-> {}]

(* network_server_start once socket, bind and listen succeeded. *)
network_server_start(server) == [server EXCEPT !.running = TRUE]

(* network_server_stop: every connected slot's socket is closed and the    *)
(* slot marked free (its socket field stays as it was).                    *)
network_server_stop(server) ==
    [server EXCEPT
        !.running = FALSE,
        !.clients = [x \in 1..MaxSessions |-> [server.clients[x] EXCEPT !.connected = FALSE]],
        !.num_clients = 0,
        !.open = @ \ {server.clients[x].socket :
                          x \in {y \in 1..MaxSessions : server.clients[y].connected}}]

connected_slots(server) == [x \in 1..MaxSessions |-> server.clients[x].connected]

(* accept gives the new connection the lowest descriptor not in use. *)
RECURSIVE lowest_free(_, _)
lowest_free(open, fd) == IF fd \notin open THEN fd ELSE lowest_free(open, fd + 1)

accept(server) == [server EXCEPT !.open = @ \cup {lowest_free(server.open, 1)}]

CLOSE_SOCKET(server, sock) == [server EXCEPT !.open = @ \ {sock}]

accept_reject_keepsSocket(server, client_sock, slot) ==
    IF slot > 0
    THEN [server EXCEPT !.clients[slot] = [connected |-> TRUE, socket |-> client_sock],
                        !.num_clients = @ + 1]
    ELSE server

(* network.c 172-185: the slot is taken, or the new socket is closed. *)
accept_store(server, client_sock, slot) ==
    IF slot > 0
    THEN [server EXCEPT !.clients[slot] = [connected |-> TRUE, socket |-> client_sock],
                        !.num_clients = @ + 1]
    ELSE CLOSE_SOCKET(server, client_sock)

(* network_accept_client with a pending connection. *)
network_accept_client(server) ==
    IF ~server.running THEN server
    ELSE accept_store(accept(server), lowest_free(server.open, 1),
                      free_slot(connected_slots(server), 1))

(* The count goes down whether the slot was connected or not. *)
network_disconnect_client_always(server, client_idx) ==
    [CLOSE_SOCKET(server, server.clients[client_idx].socket) EXCEPT
        !.clients[client_idx] = [connected |-> FALSE, socket |-> INVALID_SOCK],
        !.num_clients = @ - 1]

network_disconnect_client(server, client_idx) ==
    IF server.clients[client_idx].connected
    THEN [CLOSE_SOCKET(server, server.clients[client_idx].socket) EXCEPT
             !.clients[client_idx] = [connected |-> FALSE, socket |-> INVALID_SOCK],
             !.num_clients = @ - 1]
    ELSE server

(* network_send_to_client: one send on the slot's socket, added to the     *)
(* writes out.  delivered is what send returned (the frame was written);   *)
(* the function does not look at it.                                       *)
network_send_to_client(server, client_idx, json, delivered, out) ==
    IF ~server.clients[client_idx].connected THEN out
    ELSE Append(out, [to |-> client_idx,
                      socket |-> server.clients[client_idx].socket,
                      frame |-> json, delivered |-> delivered])

RECURSIVE send_reports_lastFirst(_, _, _, _, _, _)
send_reports_lastFirst(server, client_idx, reports, i, delivered, out) ==
    IF ~(i < Len(reports)) THEN out
    ELSE send_reports_lastFirst(server, client_idx, reports, i + 1, delivered,
             network_send_to_client(server, client_idx,
                 protocol_serialize_execution(reports[Len(reports) - i]),
                 delivered, out))

(* The loop of lines 261-267 from index i on. *)
RECURSIVE send_reports(_, _, _, _, _, _)
send_reports(server, client_idx, reports, i, delivered, out) ==
    IF ~(i < Len(reports)) THEN out
    ELSE send_reports(server, client_idx, reports, i + 1, delivered,
             network_send_to_client(server, client_idx,
                 protocol_serialize_execution(reports[i + 1]), delivered, out))

cancel_reply_always(server, client_idx, cancelled, delivered) ==
    network_send_to_client(server, client_idx,
        protocol_serialize_error("Order not found"), delivered, <<>>)

(* Lines 279-285. *)
cancel_reply(server, client_idx, cancelled, delivered) ==
    IF ~cancelled
    THEN network_send_to_client(server, client_idx,
             protocol_serialize_error("Order not found"), delivered, <<>>)
    ELSE <<>>

(* The result of the handler: the session table, the engine, the writes,   *)
(* and what the engine returned.                                           *)
handled(server, e, sent, reports, ret, dfree) ==
    [server |-> server, engine |-> e, sent |-> sent, reports |-> reports,
     ret |-> ret, dfree |-> dfree]

order_new_done(server, client_idx, r, delivered) ==
    handled(server, r.engine,
            IF r.ret
            THEN send_reports(server, client_idx, r.reports, 0, delivered, <<>>)
            ELSE <<>>,
            r.reports, r.ret, r.dfree)

order_cancel_done(server, client_idx, r, delivered) ==
    handled(server, r.engine, cancel_reply(server, client_idx, r.ret, delivered),
            <<>>, r.ret, r.dfree)

(* The switch of lines 248-290 on a line that deserialized. *)
dispatch(server, e, client_idx, type, line, delivered, clob) ==
    IF type = "ORDER_NEW"
    THEN order_new_done(server, client_idx,
             engine_submit(e, protocol_parse_order_request(line).ticker,
                           protocol_parse_order_request(line).side,
                           protocol_parse_order_request(line).type,
                           protocol_parse_order_request(line).price,
                           protocol_parse_order_request(line).quantity),
             delivered)
    ELSE IF type = "ORDER_CANCEL"
    THEN order_cancel_done(server, client_idx,
             engine_cancel(e, protocol_parse_cancel_request(line).ticker,
                           protocol_parse_cancel_request(line).order_id, clob),
             delivered)
    ELSE handled(server, e, <<>>, <<>>, FALSE, FALSE)

(* network_handle_client_data on a connected slot: recv returns 0          *)
(* ("closed"), an error or nothing ("none"), or one complete line.         *)
network_handle_client_data(server, e, client_idx, recv, line, delivered, clob) ==
    IF recv = "closed"
    THEN handled(network_disconnect_client(server, client_idx), e,
                 <<>>, <<>>, FALSE, FALSE)
    ELSE IF recv = "none"
    THEN handled(server, e, <<>>, <<>>, FALSE, FALSE)
    ELSE IF ~protocol_deserialize_message(line).ok
    THEN handled(server, e, <<>>, <<>>, FALSE, FALSE)
    ELSE dispatch(server, e, client_idx, protocol_deserialize_message(line).type,
                  line, delivered, clob)

(* A line with no member set, and the record of no handler call. *)
NoLine ==
    [json |-> FALSE, type |-> "", order_type |-> "", ticker |-> "", side |-> "",
     price |-> 0, quantity |-> 0, order_id |-> 0]

NoSessionOp ==
    [op |-> "none", client_idx |-> 0, recv |-> "none", line |-> NoLine,
     pre |-> network_server_create, sock |-> INVALID_SOCK,
     sent |-> <<>>, reports |-> <<>>, ret |-> FALSE]

----------------------------------------------------------------------------
(* math_model.c: the random source and the price process.  rng_state is an *)
(* unsigned int of 32 bits, kept as its two halves of 16 bits (hi, lo) so  *)
(* that no product leaves the range of the integers here.  A double is     *)
(* kept as what determines it: a uniform sample as its numerator a (the    *)
(* value is a / 32767.0), a normal sample as the accepted pair (a, b) of   *)
(* numerators and which of the two values of the pair it is (part), a      *)
(* price as S0 and the normal samples applied to it so far (path),         *)
(* together with its amount in thousandths (price): 0.01 is PRICE_FLOOR.   *)

Word(hi, lo) == [hi |-> hi, lo |-> lo]

NoValue == [kind |-> "none", a |-> 0, b |-> 0, part |-> 0, path |-> <<>>, price |-> 0]

Uniform(a) == [NoValue EXCEPT !.kind = "uniform", !.a = a]

Normal(a, b, part) == [NoValue EXCEPT !.kind = "normal", !.a = a, !.b = b, !.part = part]

Price(path, p) == [NoValue EXCEPT !.kind = "price", !.path = path, !.price = p]

(* The static variables of lines 638-640. *)
rng_create == [rng_state |-> Word(0, 0), has_spare |-> FALSE, spare_normal |-> NoValue]

rng_seed(g, seed) == [g EXCEPT !.rng_state = seed, !.has_spare = FALSE]

(* rng_state * 1103515245 + 12345 modulo 2^32: the multiplier is           *)
(* 16838 * 2^16 + 20077; low is lo * 20077 + 12345.                        *)
lcg_word(hi, lo, low) ==
    Word(((low \div 65536) + ((hi * 20077) % 65536) + ((lo * 16838) % 65536)) % 65536,
         low % 65536)

lcg_state(w) == lcg_word(w.hi, w.lo, w.lo * 20077 + 12345)

(* lcg_next: the generator after the call, and (rng_state >> 16) & 0x7FFF. *)
lcg_next(g) ==
    [rng |-> [g EXCEPT !.rng_state = lcg_state(g.rng_state)],
     value |-> lcg_state(g.rng_state).hi % 32768]

rng_uniform(g) == [rng |-> lcg_next(g).rng, value |-> Uniform(lcg_next(g).value)]

(* s >= 1.0 || s == 0.0 for u1 = 2 * a / 32767 - 1, u2 = 2 * b / 32767 - 1 *)
(* (line 669); 2 * a - 32767 is odd, so s is never 0.                      *)
rejected(a, b) ==
    (2 * a - 32767) * (2 * a - 32767) + (2 * b - 32767) * (2 * b - 32767)
        >= 32767 * 32767

(* The loop of lines 665-669 and the two values of the accepted pair. *)
RECURSIVE box_muller(_)
box_muller_pair(g, a, b) ==
    IF rejected(a, b) THEN box_muller(g)
    ELSE [rng |-> [g EXCEPT !.has_spare = TRUE, !.spare_normal = Normal(a, b, 2)],
          value |-> Normal(a, b, 1)]

box_muller_second(first, second) ==
    box_muller_pair(second.rng, first.value, second.value)

box_muller_first(first) == box_muller_second(first, lcg_next(first.rng))

box_muller(g) == box_muller_first(lcg_next(g))

rng_normal(g) ==
    IF g.has_spare
    THEN [rng |-> [g EXCEPT !.has_spare = FALSE], value |-> g.spare_normal]
    ELSE box_muller(g)

(* gbm_create: the model, and the generator seeded from the clock when its *)
(* state is 0 (lines 694-696).                                             *)
gbm_create(g, now, S0) ==
    [rng |-> IF g.rng_state = Word(0, 0) THEN rng_seed(g, now) ELSE g,
     model |-> [created |-> TRUE, path |-> <<>>, S0 |-> S0,
                current_price |-> S0, product |-> S0]]

(* exp(drift + diffusion) of line 718: a positive factor num / den, above  *)
(* 1 when Z is positive and below 1 otherwise (mul of line 671 is          *)
(* positive, so Z has the sign of u1 or u2).                               *)
exp_growth(z) ==
    IF (z.part = 1 /\ 2 * z.a > 32767) \/ (z.part = 2 /\ 2 * z.b > 32767)
    THEN [num |-> 2, den |-> 1]
    ELSE [num |-> 1, den |-> 4]

(* Lines 722-725 without the test: the product is kept as it is. *)
price_floor_none(p) == p

(* Lines 722-725. *)
price_floor(p) == IF p < PRICE_FLOOR THEN PRICE_FLOOR ELSE p

(* Line 720: the product, rounded towards 0 in the unit kept here (a       *)
(* product too small for the unit is 0, as one too small for a double is). *)
gbm_product(model, z) == (model.current_price * exp_growth(z).num) \div exp_growth(z).den

gbm_stepped(model, z) ==
    [rng |-> z.rng,
     model |-> [model EXCEPT !.path = Append(model.path, z.value),
                             !.product = gbm_product(model, z.value),
                             !.current_price = price_floor(gbm_product(model, z.value))],
     value |-> Price(Append(model.path, z.value),
                     price_floor(gbm_product(model, z.value)))]

gbm_next_price(g, model) == gbm_stepped(model, rng_normal(g))

(* One run of the program: its generator, its price model, and the value   *)
(* its last call returned.                                                 *)
run_create(seed) ==
    [rng |-> rng_seed(rng_create, seed),
     model |-> [created |-> FALSE, path |-> <<>>, S0 |-> 0,
                current_price |-> 0, product |-> 0],
     out |-> NoValue]

(* Two runs seeded alike, before their first call. *)
runs_create(seed) == [run |-> [r \in 1..2 |-> run_create(seed)], calls |-> 0]

----------------------------------------------------------------------------
(* network.c 213-303: the receive buffer of one session.  A byte is the    *)
(* message it belongs to (id, the count of the message in the stream) and  *)
(* whether it is the newline that ends it.  recv_buffer holds buffer_len   *)
(* bytes; BufferSize stands for RECV_BUFFER_SIZE (4096) and TempSize for   *)
(* the size of temp_buf (1024).  arrived lists the non-empty messages      *)
(* whose newline recv has returned, dispatched the lines handed to         *)
(* protocol_deserialize_message, each as the ids of its bytes.             *)

recv_create ==
    [recv_buffer |-> <<>>, arrived |-> <<>>, dispatched |-> <<>>,
     cur |-> <<>>, next_id |-> 1, bytes |-> 0]

buffer_len(r) == Len(r.recv_buffer)

(* Lines 230-235 with no test of the space: all of temp_buf is appended. *)
buffer_append_all(recv_buffer, temp_buf) == recv_buffer \o temp_buf

(* Lines 230-235: recv_len is cut to the space left, the rest of temp_buf  *)
(* is not copied.                                                          *)
buffer_append(recv_buffer, temp_buf) ==
    recv_buffer \o SubSeq(temp_buf, 1, Min(Len(temp_buf),
                                           BufferSize - Len(recv_buffer) - 1))

(* strchr(line_start, '\n'): the position of the first newline from        *)
(* line_start on, 0 if there is none.                                      *)
RECURSIVE strchr_newline(_, _)
strchr_newline(buf, i) ==
    IF i > Len(buf) THEN 0
    ELSE IF buf[i].nl THEN i
    ELSE strchr_newline(buf, i + 1)

line_ids(buf, line_start, newline) ==
    [k \in 1..(newline - line_start) |-> buf[line_start + k - 1].id]

(* The loop of lines 241-295 and the move of lines 298-302: the lines      *)
(* dispatched (an empty line is skipped) and what stays in the buffer.     *)
RECURSIVE process_lines(_, _, _)
process_line(buf, line_start, newline, dispatched) ==
    IF newline = 0
    THEN [recv_buffer |-> SubSeq(buf, line_start, Len(buf)), dispatched |-> dispatched]
    ELSE process_lines(buf, newline + 1,
                       IF newline > line_start
                       THEN Append(dispatched, line_ids(buf, line_start, newline))
                       ELSE dispatched)

process_lines(buf, line_start, dispatched) ==
    process_line(buf, line_start, strchr_newline(buf, line_start), dispatched)

(* What the peer wrote and recv returned: the bytes of temp_buf with their *)
(* messages, and the messages completed by them.                           *)
RECURSIVE peer_bytes(_, _, _)
peer_bytes(chunk, i, st) ==
    IF i > Len(chunk) THEN st
    ELSE IF chunk[i] = "n"
    THEN peer_bytes(chunk, i + 1,
                    [cur |-> <<>>, next_id |-> st.next_id + 1,
                     arrived |-> IF st.cur # <<>> THEN Append(st.arrived, st.cur)
                                 ELSE st.arrived,
                     temp_buf |-> Append(st.temp_buf, [id |-> st.next_id, nl |-> TRUE])])
    ELSE peer_bytes(chunk, i + 1,
                    [st EXCEPT !.cur = Append(@, st.next_id),
                               !.temp_buf = Append(@, [id |-> st.next_id, nl |-> FALSE])])

(* network_handle_client_data for recv_len > 0, got being what recv        *)
(* returned.                                                               *)
handle_received(r, got, done) ==
    [recv_buffer |-> done.recv_buffer, arrived |-> got.arrived,
     dispatched |-> done.dispatched, cur |-> got.cur, next_id |-> got.next_id,
     bytes |-> r.bytes + Len(got.temp_buf)]

handle_bytes(r, got) ==
    handle_received(r, got,
        process_lines(buffer_append(r.recv_buffer, got.temp_buf), 1, r.dispatched))

----------------------------------------------------------------------------
(* The state machine: one book, operations applied one at a time under the *)
(* book's lock.  last records the operation that completed most recently;  *)
(* aborted is set when the allocator stops the process at a double free.   *)

NoOrder == order_create(0, "BUY", "MARKET", 0, 0)

Init ==
    /\ book = order_book_create
    /\ last = [op |-> "none", side |-> "BUY", type |-> "MARKET", price |-> 0,
               quantity |-> 0, id |-> 0, pre |-> order_book_create,
               reports |-> <<>>, order |-> NoOrder, ok |-> FALSE]
    /\ aborted = FALSE
    /\ engine = engine_create
    /\ elast = [op |-> "none", ticker |-> "", ret |-> FALSE, initial_price |-> 0,
                pre |-> engine_create, locked |-> {}, reports |-> <<>>]
    /\ mm = market_maker_create(1, MaxLevels)
    /\ thr = threads_create
    /\ net = network_server_create
    /\ nlast = NoSessionOp
    /\ rng = runs_create(Word(0, 0))
    /\ rx = recv_create

(* Releasing an order twice is undefined: the process goes on, or the      *)
(* allocator detects it and aborts.                                        *)
Outcome(dfree, b, l) ==
    \/ /\ book' = b
       /\ last' = l
       /\ aborted' = FALSE
    \/ /\ dfree
       /\ aborted' = TRUE
       /\ UNCHANGED <<book, last>>

SubmitDone(side, type, price, quantity, r) ==
    Outcome(r.dfree, r.book,
            [op |-> "submit", side |-> side, type |-> type, price |-> price,
             quantity |-> quantity, id |-> book.next_order_id, pre |-> book,
             reports |-> r.reports, order |-> r.order, ok |-> TRUE])

Submit ==
    /\ ~aborted
    /\ book.next_order_id <= MaxOrders
    /\ \E side \in Sides, type \in Types, quantity \in Quantities :
       \E price \in (IF type = "MARKET" THEN {0} ELSE Prices) :
         SubmitDone(side, type, price, quantity,
                    engine_submit_order(book, side, type, price, quantity))
    /\ UNCHANGED beyondBook

CancelDone(order_id, r) ==
    Outcome(r.dfree, r.book,
            [op |-> "cancel", side |-> "BUY", type |-> "MARKET", price |-> 0,
             quantity |-> 0, id |-> order_id, pre |-> book,
             reports |-> <<>>, order |-> NoOrder, ok |-> r.ok])

Cancel ==
    /\ ~aborted
    /\ \E order_id \in 1..MaxOrders :
       \E clob \in (IF cancel_releases(book, order_id) THEN BOOLEAN ELSE {FALSE}) :
         CancelDone(order_id, engine_cancel_order(book, order_id, clob))
    /\ UNCHANGED beyondBook

Next == Submit \/ Cancel

Spec == Init /\ [][Next]_vars

(* A book that only takes limit orders that do not cross, and cancels: the *)
(* order book tests' use of the book, over a wider range of prices so that *)
(* the price-level trees rotate and lose inner levels.                     *)
NonCrossing(b, side, price) ==
    IF side = "BUY" THEN b.asks = NIL \/ price < order_book_get_best_ask(b)
    ELSE b.bids = NIL \/ price > order_book_get_best_bid(b)

AddLimit ==
    /\ ~aborted
    /\ book.next_order_id <= MaxBookOrders
    /\ \E side \in Sides, quantity \in Quantities, price \in 1..MaxBookPrice :
         /\ NonCrossing(book, side, price)
         /\ SubmitDone(side, "LIMIT", price, quantity,
                       engine_submit_order(book, side, "LIMIT", price, quantity))
    /\ UNCHANGED beyondBook

CancelResting ==
    /\ ~aborted
    /\ \E order_id \in 1..MaxBookOrders :
       \E clob \in (IF cancel_releases(book, order_id) THEN BOOLEAN ELSE {FALSE}) :
         CancelDone(order_id, engine_cancel_order(book, order_id, clob))
    /\ UNCHANGED beyondBook

NextBook == AddLimit \/ CancelResting

SpecBook == Init /\ [][NextBook]_vars

(* The book of SpecBook with its levels read for market data.  What lies   *)
(* behind an object is undefined: a level of the book or anything else;    *)
(* a write behind the caller's local may also end the process.  The levels *)
(* are read while the book has taken at most MaxViewOrders orders.         *)
BehindObject(b) ==
    {level_read(InOrder(b.bids)[k]) : k \in 1..Len(InOrder(b.bids))}
        \cup {level_read(InOrder(b.asks)[k]) : k \in 1..Len(InOrder(b.asks))}
        \cup {Undefined}

GetLevelsDone(is_bid, max_levels, r) ==
    \/ /\ \E rest \in [1..(IF r.count = 0 THEN 0 ELSE r.count - 1) -> BehindObject(book)] :
            last' = [op |-> "get_levels", is_bid |-> is_bid,
                     max_levels |-> max_levels, count |-> r.count,
                     levels |-> levels_read(r, rest), arr |-> r.arr, pre |-> book]
       /\ UNCHANGED <<book, aborted>>
    \/ /\ r.beyond # <<>>
       /\ aborted' = TRUE
       /\ UNCHANGED <<book, last>>

GetLevels ==
    /\ ~aborted
    /\ book.next_order_id <= MaxViewOrders + 1
    /\ \E max_levels \in 0..MaxGetLevels :
         \/ GetLevelsDone(TRUE, max_levels, order_book_get_bids(book, max_levels))
         \/ GetLevelsDone(FALSE, max_levels, order_book_get_asks(book, max_levels))
    /\ UNCHANGED beyondBook

NextLevels == AddLimit \/ CancelResting \/ GetLevels

SpecLevels == Init /\ [][NextLevels]_vars

(* The engine with its table of books, as the engine tests drive it: a    *)
(* table that is empty or one short of full at the start, symbols added,   *)
(* and orders submitted and cancelled by symbol.                           *)
NoEngineOp ==
    [op |-> "none", ticker |-> "", ret |-> FALSE, initial_price |-> 0,
     pre |-> engine_create, locked |-> {}, reports |-> <<>>]

InitEngine ==
    /\ book = order_book_create
    /\ last = [op |-> "none", side |-> "BUY", type |-> "MARKET", price |-> 0,
               quantity |-> 0, id |-> 0, pre |-> order_book_create,
               reports |-> <<>>, order |-> NoOrder, ok |-> FALSE]
    /\ aborted = FALSE
    /\ engine \in {engine_create, engine_with(MAX_TICKERS - 1)}
    /\ elast = NoEngineOp
    /\ mm = market_maker_create(1, MaxLevels)
    /\ thr = threads_create
    /\ net = network_server_create
    /\ nlast = NoSessionOp
    /\ rng = runs_create(Word(0, 0))
    /\ rx = recv_create

(* A double free stops the process or not, as in Outcome. *)
EngineOutcome(r, l) ==
    \E stop \in (IF r.dfree THEN BOOLEAN ELSE {FALSE}) :
        /\ aborted' = stop
        /\ engine' = IF stop THEN engine ELSE r.engine
        /\ elast' = IF stop THEN elast ELSE l

AddTicker ==
    /\ ~aborted
    /\ \E ticker \in Tickers, initial_price \in 1..MaxEnginePrice :
         EngineOutcome([engine |-> engine_add_ticker(engine, ticker, initial_price).engine,
                        dfree |-> FALSE],
                       [op |-> "add", ticker |-> ticker,
                        ret |-> engine_add_ticker(engine, ticker, initial_price).ret,
                        initial_price |-> initial_price, pre |-> engine,
                        locked |-> {}, reports |-> <<>>])
    /\ UNCHANGED beyondEngine

(* The books of the engine take at most MaxEngineOrders orders each. *)
CanSubmit(e, idx) ==
    idx >= 0 => e.books[idx + 1].book.next_order_id <= MaxEngineOrders

SubmitTickerDone(ticker, r) ==
    EngineOutcome(r, [op |-> "submit", ticker |-> ticker, ret |-> r.ret,
                      initial_price |-> 0, pre |-> engine, locked |-> r.locked,
                      reports |-> r.reports])

SubmitTicker ==
    /\ ~aborted
    /\ \E ticker \in Tickers, side \in Sides, type \in Types :
       \E price \in (IF type = "MARKET" THEN {0} ELSE 1..MaxEnginePrice) :
         /\ CanSubmit(engine, engine_get_ticker_index(engine, ticker))
         /\ SubmitTickerDone(ticker, engine_submit(engine, ticker, side, type, price, 1))
    /\ UNCHANGED beyondEngine

CancelTickerDone(ticker, r) ==
    EngineOutcome(r, [op |-> "cancel", ticker |-> ticker, ret |-> r.ret,
                      initial_price |-> 0, pre |-> engine, locked |-> r.locked,
                      reports |-> <<>>])

CancelTicker ==
    /\ ~aborted
    /\ \E ticker \in Tickers, order_id \in 1..MaxEngineOrders :
         CancelTickerDone(ticker, engine_cancel(engine, ticker, order_id, FALSE))
    /\ UNCHANGED beyondEngine

NextEngine == AddTicker \/ SubmitTicker \/ CancelTicker

SpecEngine == InitEngine /\ [][NextEngine]_vars

(* The simulation thread's use of one book: a market-maker tick after      *)
(* another, each at the fair price the price model produced.               *)
FairPrices == (HalfSpread + (MaxLevels - 1) * LevelSpacing + 1)..MaxFair

TickDone(fair_price, w) ==
    \E stop \in (IF w.dfree THEN BOOLEAN ELSE {FALSE}) :
        /\ aborted' = stop
        /\ book' = IF stop THEN book ELSE w.book
        /\ mm' = IF stop THEN mm ELSE w.mm
        /\ last' = IF stop THEN last
                   ELSE [op |-> "tick", side |-> "BUY", type |-> "LIMIT",
                         price |-> fair_price, quantity |-> mm.order_size,
                         id |-> book.next_order_id, pre |-> book,
                         reports |-> <<>>, order |-> NoOrder, ok |-> TRUE]

MarketMakerTick ==
    /\ ~aborted
    /\ book.next_order_id <= 2 * mm.num_levels * MaxTicks
    /\ \E fair_price \in FairPrices :
       \E clob \in (IF \E i \in 1..mm.num_levels :
                           mm.bid_orders[i] > 0 \/ mm.ask_orders[i] > 0
                     THEN BOOLEAN ELSE {FALSE}) :
         TickDone(fair_price,
                  market_maker_update([book |-> book, mm |-> mm, dfree |-> FALSE],
                                      fair_price, clob))
    /\ UNCHANGED beyondMaker

NextMaker == MarketMakerTick

SpecMaker == Init /\ [][NextMaker]_vars

(* The threads.  Each step is one acquisition or release of a gate, or the *)
(* code between two of them.  A thread that finds a gate taken waits.      *)

(* signal_handler (main.c 412-416): SIGINT or SIGTERM clears the run flag. *)
Signal ==
    /\ thr.g_running
    /\ thr' = [thr EXCEPT !.g_running = FALSE]
    /\ UNCHANGED beyondThreads

(* simulation_thread: while (g_running), main.c 434. *)
SimTest ==
    /\ thr.pc.sim = "test"
    /\ thr' = [thr EXCEPT !.pc.sim = IF thr.g_running THEN "mm" ELSE "exit"]
    /\ UNCHANGED beyondThreads

(* market_maker_pool_update_all: every engine call of maker k takes the    *)
(* gate of book k and releases it (engine.c 248-268, 279-281).             *)
SimMakerLock ==
    /\ thr.pc.sim = "mm"
    /\ thr.gate[thr.k] = "none"
    /\ thr' = [thr EXCEPT !.gate = order_book_lock(thr.gate, thr.k, "sim"),
                          !.pc.sim = "mm_in"]
    /\ UNCHANGED beyondThreads

SimMakerUnlock ==
    /\ thr.pc.sim = "mm_in"
    /\ thr' = [thr EXCEPT
                  !.gate = order_book_unlock(thr.gate, thr.k),
                  !.c = IF thr.c + 1 < CallsPerTick THEN thr.c + 1 ELSE 0,
                  !.k = IF thr.c + 1 < CallsPerTick THEN thr.k
                        ELSE IF thr.k < NumBooks THEN thr.k + 1 ELSE 1,
                  !.pc.sim = IF thr.c + 1 < CallsPerTick \/ thr.k < NumBooks
                             THEN "mm" ELSE "snap"]
    /\ UNCHANGED beyondThreads

(* main.c 439-456: the snapshot of book k under its gate, then the         *)
(* broadcast under the session table's gate.  The best prices are read     *)
(* first (447-448), the last trade after them (449-450).                   *)
SimSnapshotLock ==
    /\ thr.pc.sim = "snap"
    /\ thr.gate[thr.k] = "none"
    /\ thr' = [thr EXCEPT !.gate = order_book_lock(thr.gate, thr.k, "sim"),
                          !.pc.sim = "snap_in"]
    /\ UNCHANGED beyondThreads

SimSnapshotQuote ==
    /\ thr.pc.sim = "snap_in"
    /\ thr' = [thr EXCEPT !.update.quote = thr.seq[thr.k].quote,
                          !.pc.sim = "snap_trade"]
    /\ UNCHANGED beyondThreads

SimSnapshotUnlock ==
    /\ thr.pc.sim = "snap_trade"
    /\ thr' = [thr EXCEPT !.update.trade = thr.seq[thr.k].trade,
                          !.gate = order_book_unlock(thr.gate, thr.k),
                          !.pc.sim = "bcast"]
    /\ UNCHANGED beyondThreads

(* network_broadcast_market_data (network.c 337-354): the frame is written *)
(* to one slot of the table per step.  stale records a write to a slot     *)
(* whose socket is closed or whose fields are not all set.                 *)
SimBroadcastLock ==
    /\ thr.pc.sim = "bcast"
    /\ thr.clients_lock = "none"
    /\ thr' = [thr EXCEPT !.clients_lock = net_mutex_lock(thr.clients_lock, "sim"),
                          !.bi = 1,
                          !.pc.sim = "bcast_in"]
    /\ UNCHANGED beyondThreads

SimBroadcastWrite ==
    /\ thr.pc.sim = "bcast_in"
    /\ thr.bi <= MaxSessions
    /\ thr' = IF thr.connected[thr.bi]
              THEN [thr EXCEPT !.frames[thr.bi] = thr.frames[thr.bi] + 1,
                               !.stale = \/ thr.stale
                                         \/ thr.socket[thr.bi] # "open"
                                         \/ ~thr.ready[thr.bi],
                               !.bi = thr.bi + 1]
              ELSE [thr EXCEPT !.bi = thr.bi + 1]
    /\ UNCHANGED beyondThreads

SimBroadcastUnlock ==
    /\ thr.pc.sim = "bcast_in"
    /\ thr.bi > MaxSessions
    /\ thr' = [thr EXCEPT !.clients_lock = net_mutex_unlock(thr.clients_lock),
                          !.bi = 1,
                          !.frames = [x \in 1..MaxSessions |-> 0],
                          !.update = NoSnapshot,
                          !.k = IF thr.k < NumBooks THEN thr.k + 1 ELSE 1,
                          !.pc.sim = IF thr.k < NumBooks THEN "snap" ELSE "sleep"]
    /\ UNCHANGED beyondThreads

SimSleep ==
    /\ thr.pc.sim = "sleep"
    /\ thr' = [thr EXCEPT !.pc.sim = "test"]
    /\ UNCHANGED beyondThreads

(* network_thread: while (g_running && args->server->running), main.c 474; *)
(* server->running is cleared by network_server_stop only, after the join. *)
NetTest ==
    /\ thr.pc.net = "test"
    /\ thr' = [thr EXCEPT !.pc.net = IF thr.g_running THEN "poll" ELSE "exit"]
    /\ UNCHANGED beyondThreads

(* network_server_poll: accept, with or without a pending connection. *)
NetPoll ==
    /\ thr.pc.net = "poll"
    /\ \E pending \in BOOLEAN :
         thr' = [thr EXCEPT !.pc.net = IF pending THEN "accept" ELSE "clients",
                            !.j = 1]
    /\ UNCHANGED beyondThreads

NetAcceptLock ==
    /\ thr.pc.net = "accept"
    /\ thr.clients_lock = "none"
    /\ thr' = [thr EXCEPT !.clients_lock = net_mutex_lock(thr.clients_lock, "net"),
                          !.pc.net = "accept_in"]
    /\ UNCHANGED beyondThreads

(* network.c 164-175: the slot's socket and connected flag are set, or the *)
(* new socket is closed when no slot is free (183).                        *)
NetAcceptSlot ==
    /\ thr.pc.net = "accept_in"
    /\ thr' = IF free_slot(thr.connected, 1) > 0
              THEN [thr EXCEPT
                       !.slot = free_slot(thr.connected, 1),
                       !.socket[free_slot(thr.connected, 1)] = "open",
                       !.connected[free_slot(thr.connected, 1)] = TRUE,
                       !.ready[free_slot(thr.connected, 1)] = FALSE,
                       !.pc.net = "accept_slot"]
              ELSE [thr EXCEPT !.slot = 0, !.pc.net = "accept_slot"]
    /\ UNCHANGED beyondThreads

(* network.c 176-178, 187: the rest of the slot, then the release. *)
NetAcceptUnlock ==
    /\ thr.pc.net = "accept_slot"
    /\ thr' = [thr EXCEPT
                  !.ready = IF thr.slot > 0
                            THEN [thr.ready EXCEPT ![thr.slot] = TRUE]
                            ELSE thr.ready,
                  !.slot = 0,
                  !.clients_lock = net_mutex_unlock(thr.clients_lock),
                  !.pc.net = "clients"]
    /\ UNCHANGED beyondThreads

(* The loop over the session table; network_handle_client_data up to the   *)
(* first engine call or the disconnect: recv returns 0 (closed), nothing,  *)
(* or a request that names book b.                                         *)
NetClient ==
    /\ thr.pc.net = "clients"
    /\ IF thr.j > MaxSessions
       THEN thr' = [thr EXCEPT !.pc.net = "nsleep", !.j = 1]
       ELSE IF ~thr.connected[thr.j]
       THEN thr' = [thr EXCEPT !.j = thr.j + 1]
       ELSE \E recv \in {"closed", "nothing", "request"} :
            \E b \in 1..NumBooks :
              /\ recv = "request" => thr.seq[b].trade < MaxOps
              /\ thr' = IF recv = "closed" THEN [thr EXCEPT !.pc.net = "disc"]
                        ELSE IF recv = "nothing" THEN [thr EXCEPT !.j = thr.j + 1]
                        ELSE [thr EXCEPT !.pc.net = "engine", !.nb = b]
    /\ UNCHANGED beyondThreads

(* engine_submit_order, engine_cancel_order (engine.c 248-268, 279-281):   *)
(* the book is changed in two steps under its gate, the resting orders     *)
(* first and the trades of the match second.                               *)
NetEngineLock ==
    /\ thr.pc.net = "engine"
    /\ thr.gate[thr.nb] = "none"
    /\ thr' = [thr EXCEPT !.gate = order_book_lock(thr.gate, thr.nb, "net"),
                          !.pc.net = "engine_in"]
    /\ UNCHANGED beyondThreads

NetEngineAdd ==
    /\ thr.pc.net = "engine_in"
    /\ thr' = [thr EXCEPT !.seq[thr.nb].quote = thr.seq[thr.nb].quote + 1,
                          !.pc.net = "engine_match"]
    /\ UNCHANGED beyondThreads

NetEngineUnlock ==
    /\ thr.pc.net = "engine_match"
    /\ thr' = [thr EXCEPT !.seq[thr.nb].trade = thr.seq[thr.nb].trade + 1,
                          !.gate = order_book_unlock(thr.gate, thr.nb),
                          !.pc.net = "send"]
    /\ UNCHANGED beyondThreads

(* network_send_to_client takes no gate. *)
NetSend ==
    /\ thr.pc.net = "send"
    /\ thr' = [thr EXCEPT !.pc.net = "clients", !.j = thr.j + 1, !.nb = 1]
    /\ UNCHANGED beyondThreads

(* network_disconnect_client (network.c 190-205): the socket is closed     *)
(* (196) before the slot is marked free (197-199).                         *)
NetDisconnectLock ==
    /\ thr.pc.net = "disc"
    /\ thr.clients_lock = "none"
    /\ thr' = [thr EXCEPT !.clients_lock = net_mutex_lock(thr.clients_lock, "net"),
                          !.pc.net = "disc_in"]
    /\ UNCHANGED beyondThreads

NetDisconnectClose ==
    /\ thr.pc.net = "disc_in"
    /\ thr' = [thr EXCEPT !.socket[thr.j] = "closed", !.pc.net = "disc_closed"]
    /\ UNCHANGED beyondThreads

NetDisconnectUnlock ==
    /\ thr.pc.net = "disc_closed"
    /\ thr' = [thr EXCEPT !.connected[thr.j] = FALSE,
                          !.socket[thr.j] = "invalid",
                          !.ready[thr.j] = FALSE,
                          !.clients_lock = net_mutex_unlock(thr.clients_lock),
                          !.pc.net = "clients",
                          !.j = thr.j + 1]
    /\ UNCHANGED beyondThreads

(* SLEEP_MS(10), main.c 476. *)
NetSleep ==
    /\ thr.pc.net = "nsleep"
    /\ thr' = [thr EXCEPT !.pc.net = "test"]
    /\ UNCHANGED beyondThreads

(* main: pthread_join of the two threads (main.c 613-614), then the        *)
(* cleanup (619-622).  network_server_destroy stops the server: under the  *)
(* session table's gate every connected socket is closed and its slot      *)
(* marked free (network.c 116-129).                                        *)
MainJoinSim ==
    /\ thr.pc.main = "join_sim"
    /\ pthread_join(thr.pc.sim)
    /\ thr' = [thr EXCEPT !.pc.main = "join_net"]
    /\ UNCHANGED beyondThreads

MainJoinNet ==
    /\ thr.pc.main = "join_net"
    /\ pthread_join(thr.pc.net)
    /\ thr' = [thr EXCEPT !.pc.main = "cleanup"]
    /\ UNCHANGED beyondThreads

MainCleanup ==
    /\ thr.pc.main = "cleanup"
    /\ thr.clients_lock = "none"
    /\ thr' = [thr EXCEPT
                  !.socket = [x \in 1..MaxSessions |->
                                IF thr.connected[x] THEN "closed" ELSE thr.socket[x]],
                  !.connected = [x \in 1..MaxSessions |-> FALSE],
                  !.destroyed = TRUE,
                  !.pc.main = "done"]
    /\ UNCHANGED beyondThreads

SimNext ==
    \/ SimTest
    \/ SimMakerLock \/ SimMakerUnlock
    \/ SimSnapshotLock \/ SimSnapshotQuote \/ SimSnapshotUnlock
    \/ SimBroadcastLock \/ SimBroadcastWrite \/ SimBroadcastUnlock
    \/ SimSleep

NetNext ==
    \/ NetTest
    \/ NetPoll
    \/ NetAcceptLock \/ NetAcceptSlot \/ NetAcceptUnlock
    \/ NetClient
    \/ NetEngineLock \/ NetEngineAdd \/ NetEngineUnlock \/ NetSend
    \/ NetDisconnectLock \/ NetDisconnectClose \/ NetDisconnectUnlock
    \/ NetSleep

MainNext == MainJoinSim \/ MainJoinNet \/ MainCleanup

NextThreads == Signal \/ SimNext \/ NetNext \/ MainNext

SpecThreads == Init /\ [][NextThreads]_vars

(* Every thread that can take a step eventually takes one; the signal may  *)
(* never come.                                                             *)
SpecShutdown ==
    /\ SpecThreads
    /\ WF_vars(SimNext)
    /\ WF_vars(NetNext)
    /\ WF_vars(MainNext)

----------------------------------------------------------------------------
(* The network thread alone: accepts and received lines, one handler call  *)
(* at a time, on the engine with the symbols main lists.  nlast records    *)
(* the call that completed most recently.                                  *)

(* main.c 530-538. *)
main_engine ==
    engine_add_ticker(engine_add_ticker(engine_create, "AAPL", 1).engine,
                      "MSFT", 1).engine

(* The lines a client sends: text that does not parse, an object without a *)
(* type, a type the server does not dispatch or does not know, orders and  *)
(* cancels for a symbol main lists, and one order and one cancel for a     *)
(* symbol that is not listed.                                              *)
Lines ==
    {NoLine, [NoLine EXCEPT !.json = TRUE]}
    \cup {[NoLine EXCEPT !.json = TRUE, !.type = t] : t \in {"HEARTBEAT", "BOGUS"}}
    \cup {[NoLine EXCEPT !.json = TRUE, !.type = "ORDER_NEW", !.order_type = ot,
                         !.ticker = "AAPL", !.side = s, !.price = p,
                         !.quantity = q] :
             ot \in Types, s \in Sides, p \in 1..MaxEnginePrice, q \in Quantities}
    \cup {[NoLine EXCEPT !.json = TRUE, !.type = "ORDER_CANCEL", !.ticker = "AAPL",
                         !.order_id = id] : id \in 1..MaxLineOrders}
    \cup {[NoLine EXCEPT !.json = TRUE, !.type = "ORDER_NEW", !.order_type = "LIMIT",
                         !.ticker = "NONE", !.side = "BUY", !.price = 1,
                         !.quantity = 1],
          [NoLine EXCEPT !.json = TRUE, !.type = "ORDER_CANCEL", !.ticker = "NONE",
                         !.order_id = 1]}

(* The lines the handler may answer with a write. *)
Answered(line) == line.type \in {"ORDER_NEW", "ORDER_CANCEL"}

InitSession ==
    /\ book = order_book_create
    /\ last = [op |-> "none", side |-> "BUY", type |-> "MARKET", price |-> 0,
               quantity |-> 0, id |-> 0, pre |-> order_book_create,
               reports |-> <<>>, order |-> NoOrder, ok |-> FALSE]
    /\ aborted = FALSE
    /\ engine = main_engine
    /\ elast = NoEngineOp
    /\ mm = market_maker_create(1, MaxLevels)
    /\ thr = threads_create
    /\ net = network_server_start(network_server_create)
    /\ nlast = NoSessionOp
    /\ rng = runs_create(Word(0, 0))
    /\ rx = recv_create

AcceptClient ==
    /\ ~aborted
    /\ net' = network_accept_client(net)
    /\ nlast' = [NoSessionOp EXCEPT !.op = "accept", !.pre = net,
                                    !.sock = lowest_free(net.open, 1)]
    /\ UNCHANGED <<aborted, engine>>
    /\ UNCHANGED beyondSession

(* A double free stops the process or not, as in Outcome. *)
SessionOutcome(r, l) ==
    \E stop \in (IF r.dfree THEN BOOLEAN ELSE {FALSE}) :
        /\ aborted' = stop
        /\ engine' = IF stop THEN engine ELSE r.engine
        /\ net' = IF stop THEN net ELSE r.server
        /\ nlast' = IF stop THEN nlast ELSE l

ClientDataDone(client_idx, recv, line, r) ==
    SessionOutcome(r, [op |-> "data", client_idx |-> client_idx, recv |-> recv,
                       line |-> line, pre |-> net,
                       sock |-> net.clients[client_idx].socket,
                       sent |-> r.sent, reports |-> r.reports, ret |-> r.ret])

(* A book takes at most MaxLineOrders orders from the sessions. *)
CanOrder(e, idx) ==
    idx >= 0 => e.books[idx + 1].book.next_order_id <= MaxLineOrders

(* network_server_poll calls the handler for the connected slots. *)
ClientData ==
    /\ ~aborted
    /\ \E client_idx \in 1..MaxSessions :
       \E recv \in {"closed", "none", "line"} :
       \E line \in (IF recv = "line" THEN Lines ELSE {NoLine}) :
       \E delivered \in (IF Answered(line) THEN BOOLEAN ELSE {TRUE}) :
         /\ net.clients[client_idx].connected
         /\ line.type = "ORDER_NEW" =>
                CanOrder(engine, engine_get_ticker_index(engine, line.ticker))
         /\ ClientDataDone(client_idx, recv, line,
                network_handle_client_data(net, engine, client_idx, recv, line,
                                           delivered, FALSE))
    /\ UNCHANGED beyondSession

NextSession == AcceptClient \/ ClientData

SpecSession == InitSession /\ [][NextSession]_vars

(* The session table alone, under the calls that change it: accept,        *)
(* disconnect of any slot, the handler on a connection that is idle, that  *)
(* the peer closed or that sent a line other than an order, stop, and a    *)
(* start after a stop.                                                     *)
DisconnectClient ==
    /\ ~aborted
    /\ \E client_idx \in 1..MaxSessions :
         /\ net' = network_disconnect_client(net, client_idx)
         /\ nlast' = [NoSessionOp EXCEPT !.op = "disconnect", !.pre = net,
                                         !.client_idx = client_idx,
                                         !.sock = net.clients[client_idx].socket]
    /\ UNCHANGED <<aborted, engine>>
    /\ UNCHANGED beyondSession

ClientNoOrder ==
    /\ ~aborted
    /\ net.running
    /\ \E client_idx \in 1..MaxSessions :
       \E recv \in {"closed", "none", "line"} :
       \E line \in (IF recv = "line" THEN {l \in Lines : l.type # "ORDER_NEW"}
                    ELSE {NoLine}) :
       \E delivered \in (IF Answered(line) THEN BOOLEAN ELSE {TRUE}) :
         /\ net.clients[client_idx].connected
         /\ ClientDataDone(client_idx, recv, line,
                network_handle_client_data(net, engine, client_idx, recv, line,
                                           delivered, FALSE))
    /\ UNCHANGED beyondSession

ServerStop ==
    /\ ~aborted
    /\ net' = network_server_stop(net)
    /\ nlast' = [NoSessionOp EXCEPT !.op = "stop", !.pre = net]
    /\ UNCHANGED <<aborted, engine>>
    /\ UNCHANGED beyondSession

ServerStart ==
    /\ ~aborted
    /\ ~net.running
    /\ net' = network_server_start(net)
    /\ nlast' = [NoSessionOp EXCEPT !.op = "start", !.pre = net]
    /\ UNCHANGED <<aborted, engine>>
    /\ UNCHANGED beyondSession

NextClients == AcceptClient \/ DisconnectClient \/ ClientNoOrder \/ ServerStop \/ ServerStart

SpecClients == InitSession /\ [][NextClients]_vars

----------------------------------------------------------------------------
(* Two runs of the program that call rng_seed with the same seed and then  *)
(* make the same calls.  The clock each run reads in gbm_create is its     *)
(* own.  rng.calls counts the calls since the seed.                        *)

(* The seeds: 0, the seeds of the tests (42, 12345), and the state whose   *)
(* successor is 0 (4235699843).                                            *)
Seeds == {Word(0, 0), Word(0, 42), Word(0, 12345), Word(64631, 42627)}

(* S0 in thousandths: below the floor, the floor, and 0.04. *)
StartPrices == {5, PRICE_FLOOR, 4 * PRICE_FLOOR}

(* time(NULL) in two consecutive seconds. *)
Clock == {Word(26000, 0), Word(26000, 1)}

InitRng ==
    /\ book = order_book_create
    /\ last = [op |-> "none", side |-> "BUY", type |-> "MARKET", price |-> 0,
               quantity |-> 0, id |-> 0, pre |-> order_book_create,
               reports |-> <<>>, order |-> NoOrder, ok |-> FALSE]
    /\ aborted = FALSE
    /\ engine = engine_create
    /\ elast = NoEngineOp
    /\ mm = market_maker_create(1, MaxLevels)
    /\ thr = threads_create
    /\ net = network_server_create
    /\ nlast = NoSessionOp
    /\ rng \in {runs_create(seed) : seed \in Seeds}
    /\ rx = recv_create

Called(f) == [run |-> f, calls |-> rng.calls + 1]

CallSeed ==
    /\ \E seed \in Seeds : rng' = runs_create(seed)
    /\ rng.calls > 0
    /\ UNCHANGED beyondRng

CallUniform ==
    /\ rng.calls < MaxCalls
    /\ rng' = Called([r \in 1..2 |->
               [rng.run[r] EXCEPT !.rng = rng_uniform(rng.run[r].rng).rng,
                                  !.out = rng_uniform(rng.run[r].rng).value]])
    /\ UNCHANGED beyondRng

CallNormal ==
    /\ rng.calls < MaxCalls
    /\ rng' = Called([r \in 1..2 |->
               [rng.run[r] EXCEPT !.rng = rng_normal(rng.run[r].rng).rng,
                                  !.out = rng_normal(rng.run[r].rng).value]])
    /\ UNCHANGED beyondRng

CallGbmCreate ==
    /\ rng.calls < MaxCalls
    /\ \E now \in [1..2 -> Clock], S0 \in StartPrices :
        rng' = Called([r \in 1..2 |->
                   [rng.run[r] EXCEPT
                       !.rng = gbm_create(rng.run[r].rng, now[r], S0).rng,
                       !.model = gbm_create(rng.run[r].rng, now[r], S0).model,
                       !.out = NoValue]])
    /\ UNCHANGED beyondRng

CallGbmNext ==
    /\ rng.calls < MaxCalls
    /\ \A r \in 1..2 : rng.run[r].model.created
    /\ rng' = Called([r \in 1..2 |->
                  [rng |-> gbm_next_price(rng.run[r].rng, rng.run[r].model).rng,
                   model |-> gbm_next_price(rng.run[r].rng, rng.run[r].model).model,
                   out |-> gbm_next_price(rng.run[r].rng, rng.run[r].model).value]])
    /\ UNCHANGED beyondRng

NextRng == CallSeed \/ CallUniform \/ CallNormal \/ CallGbmCreate \/ CallGbmNext

SpecRng == InitRng /\ [][NextRng]_vars

(* One session's receive buffer: the peer writes any bytes, cut into the   *)
(* pieces recv returns in any way; at most MaxStream bytes in all.  A      *)
(* session that ends gives its slot to a new one, whose buffer_len is 0.   *)
Chunks == UNION {[1..n -> {"c", "n"}] : n \in 1..(TempSize - 1)}

ReceiveData ==
    /\ \E chunk \in Chunks :
         /\ rx.bytes + Len(chunk) <= MaxStream
         /\ rx' = handle_bytes(rx, peer_bytes(chunk, 1,
                      [cur |-> rx.cur, next_id |-> rx.next_id,
                       arrived |-> rx.arrived, temp_buf |-> <<>>]))
    /\ UNCHANGED beyondBuffer

NewSession ==
    /\ rx.bytes > 0
    /\ rx' = [recv_create EXCEPT !.bytes = rx.bytes]
    /\ UNCHANGED beyondBuffer

NextBuffer == ReceiveData \/ NewSession

SpecBuffer == Init /\ [][NextBuffer]_vars

----------------------------------------------------------------------------
(* Vocabulary of the properties *)

RECURSIVE SumUnfilled(_)
SumUnfilled(q) ==
    IF q = <<>> THEN 0
    ELSE (Head(q).quantity - Head(q).filled_qty) + SumUnfilled(Tail(q))

RECURSIVE SumTo(_, _)
SumTo(f, n) == IF n = 0 THEN 0 ELSE f[n] + SumTo(f, n - 1)

Levels(root) == {InOrder(root)[k] : k \in 1..Len(InOrder(root))}

AllLevels(b) == Levels(b.bids) \cup Levels(b.asks)

Queued(b) == UNION {{l.q[i] : i \in 1..Len(l.q)} : l \in AllLevels(b)}

OwnSide(b, side) == IF side = "BUY" THEN b.bids ELSE b.asks

OppSide(b, side) == IF side = "BUY" THEN b.asks ELSE b.bids

(* A level price an incoming order (side, type, price) may trade at. *)
Acceptable(side, type, price, level_price) ==
    \/ type = "MARKET"
    \/ side = "BUY" /\ level_price <= price
    \/ side = "SELL" /\ level_price >= price

(* Unfilled quantity resting on the opposite side at acceptable prices. *)
AcceptableQty(b, side, type, price) ==
    LET ls == InOrder(OppSide(b, side))
    IN SumTo([k \in 1..Len(ls) |->
                 IF Acceptable(side, type, price, ls[k].price)
                 THEN SumUnfilled(ls[k].q) ELSE 0], Len(ls))

(* The prices at which the last submit traded. *)
TradedPrices == {last.reports[j].price : j \in 1..Len(last.reports)}

----------------------------------------------------------------------------
(* C1: after every completed submit or cancel, if both sides have a level  *)
(* then best bid < best ask: the book is never left crossed or locked.     *)
C1_NeverCrossed ==
    (book.bids # NIL /\ book.asks # NIL)
        => order_book_get_best_bid(book) < order_book_get_best_ask(book)

(* C2: after every completed submit or cancel, every level's cached        *)
(* total_quantity is the sum of quantity - filled_qty over its queue.      *)
C2_LevelTotals ==
    \A l \in AllLevels(book) : l.total_quantity = SumUnfilled(l.q)

(* C3: after every completed submit or cancel, every level in either index *)
(* has a non-empty queue.                                                  *)
C3_NoEmptyLevel ==
    \A l \in AllLevels(book) : l.q # <<>>

C3_Witness ==
    /\ last.op = "cancel"
    /\ last.ok
    /\ \E side \in Sides :
         /\ OwnSide(book, side) # NIL
         /\ Cardinality(Levels(OwnSide(book, side)))
              < Cardinality(Levels(OwnSide(last.pre, side)))

(* C4: a limit order completely filled during its own submit is not queued *)
(* at any level when engine_submit_order returns.                          *)
C4_FilledLimitLeavesBook ==
    (/\ last.op = "submit"
     /\ last.type = "LIMIT"
     /\ last.order.filled_qty = last.order.quantity)
        => \A o \in Queued(book) : o.id # last.id

(* C5: the quantity a submit fills is min(q, unfilled quantity resting on  *)
(* the opposite side at acceptable prices before the call).                *)
C5_FillsAllAcceptable ==
    last.op = "submit"
        => last.order.filled_qty
             = Min(last.quantity,
                   AcceptableQty(last.pre, last.side, last.type, last.price))

(* C6: a submit that empties the best opposing level removes only that     *)
(* level: every opposing level it did not trade at is still in the index   *)
(* with the same queue and total.                                          *)
C6_OtherLevelsKept ==
    last.op = "submit"
        => \A l \in Levels(OppSide(last.pre, last.side)) :
             l.price \notin TradedPrices
                 => \E m \in Levels(OppSide(book, last.side)) :
                      /\ m.price = l.price
                      /\ m.q = l.q
                      /\ m.total_quantity = l.total_quantity

(* The orders resting on the side opposite to the last submit before the   *)
(* call, each with the price of the level that queued it.                  *)
PreOppOrders ==
    UNION {{[price |-> l.price, order |-> l.q[i]] : i \in 1..Len(l.q)} :
             l \in Levels(OppSide(last.pre, last.side))}

(* Insertion order is the order of the ids a book issues; an id the        *)
(* allocator overwrote is the negated one.                                 *)
BetterPriority(a, b) ==
    \/ last.side = "BUY" /\ a.price < b.price
    \/ last.side = "SELL" /\ a.price > b.price
    \/ a.price = b.price /\ Abs(a.order.id) < Abs(b.order.id)

(* What the resting order id was filled by the reports before position j. *)
FilledBefore(id, j) ==
    SumTo([i \in 1..(j - 1) |->
              IF i % 2 = 0 /\ last.reports[i].order_id = id
              THEN last.reports[i].quantity ELSE 0], j - 1)

(* What the incoming order was filled by the reports up to position j. *)
IncomingFilledThrough(j) ==
    SumTo([i \in 1..j |-> IF i % 2 = 1 THEN last.reports[i].quantity ELSE 0], j)

(* The best opposing price before the last submit crosses its limit. *)
Crosses ==
    \E l \in Levels(OppSide(last.pre, last.side)) :
        Acceptable(last.side, "LIMIT", last.price, l.price)

(* C7: price-time priority.  Within one submit a resting order receives a  *)
(* fill only if every resting order at a strictly better opposing price,   *)
(* and every earlier-inserted order at the same price, is fully filled by  *)
(* then.                                                                   *)
C7_PriceTimePriority ==
    last.op = "submit"
        => \A j \in 1..Len(last.reports) :
             j % 2 = 0
                 => \A e \in PreOppOrders :
                      e.order.id = last.reports[j].order_id
                          => \A e2 \in PreOppOrders :
                               BetterPriority(e2, e)
                                   => e2.order.filled_qty + FilledBefore(e2.order.id, j)
                                        = e2.order.quantity

C7_Witness ==
    /\ last.op = "submit"
    /\ Len(last.reports) >= 4
    /\ Cardinality(Levels(OppSide(last.pre, last.side))) >= 2

(* C8: no fill at an unacceptable price.  Every report of a buy limit has  *)
(* price <= its limit, of a sell limit price >= its limit; the trade price *)
(* is the price of the level that queued the resting order; a limit order  *)
(* that does not cross produces no report and changes no resting order.    *)
C8_NoFillAtUnacceptablePrice ==
    last.op = "submit"
        => /\ \A j \in 1..Len(last.reports) :
                /\ Acceptable(last.side, last.type, last.price, last.reports[j].price)
                /\ \E e \in PreOppOrders :
                     /\ e.order.id \in {last.reports[j].order_id, last.reports[j].match_id}
                     /\ e.price = last.reports[j].price
           /\ (last.type = "LIMIT" /\ ~Crosses)
                => /\ last.reports = <<>>
                   /\ \A o \in Queued(last.pre) : o \in Queued(book)

C8_Witness ==
    /\ last.op = "submit"
    /\ last.type = "LIMIT"
    /\ last.reports # <<>>
    /\ last.reports[1].price # last.price
    /\ Cardinality(Levels(OppSide(last.pre, last.side))) >= 2

(* C9: after a submit a market order is queued in neither index (on an     *)
(* empty book it yields no report), and a limit order with unfilled        *)
(* quantity is queued at the tail of the level at its limit price on its   *)
(* own side.                                                               *)
C9_RemainderDisposition ==
    /\ \A o \in Queued(book) : o.type = "LIMIT"
    /\ last.op = "submit"
        => /\ last.type = "MARKET"
                => /\ \A o \in Queued(book) : o.id # last.id
                   /\ (last.pre.bids = NIL /\ last.pre.asks = NIL) => last.reports = <<>>
           /\ (last.type = "LIMIT" /\ last.order.filled_qty < last.order.quantity)
                => /\ \E l \in Levels(OwnSide(book, last.side)) :
                        /\ l.price = last.price
                        /\ l.q[Len(l.q)] = last.order
                   /\ \A l \in AllLevels(book) : \A i \in 1..Len(l.q) :
                        l.q[i].id = last.id
                            => /\ l.price = last.price
                               /\ l \in Levels(OwnSide(book, last.side))
                               /\ i = Len(l.q)

C9_Witness ==
    /\ last.op = "submit"
    /\ last.type = "LIMIT"
    /\ last.reports # <<>>
    /\ last.order.filled_qty < last.order.quantity
    /\ \E l \in Levels(OwnSide(book, last.side)) :
         Len(l.q) >= 2 /\ l.q[Len(l.q)].id = last.id

(* C10: each fill appends two reports, the aggressor's and then the        *)
(* resting order's, with mirrored order_id / match_id and the same price   *)
(* and quantity; a report's status is FILLED exactly when that order's     *)
(* cumulative filled quantity has reached its quantity at that fill, and   *)
(* PARTIAL otherwise.                                                      *)
C10_ReportPairs ==
    last.op = "submit"
        => /\ Len(last.reports) % 2 = 0
           /\ \A k \in 1..(Len(last.reports) \div 2) :
                LET a == last.reports[2 * k - 1]
                    r == last.reports[2 * k]
                IN /\ a.order_id = last.id
                   /\ r.match_id = last.id
                   /\ a.match_id = r.order_id
                   /\ a.price = r.price
                   /\ a.quantity = r.quantity
                   /\ a.status \in {"FILLED", "PARTIAL"}
                   /\ r.status \in {"FILLED", "PARTIAL"}
                   /\ a.status = "FILLED"
                        <=> IncomingFilledThrough(2 * k - 1) = last.quantity
                   /\ \E e \in PreOppOrders :
                        /\ e.order.id = r.order_id
                        /\ r.status = "FILLED"
                             <=> e.order.filled_qty + FilledBefore(r.order_id, 2 * k + 1)
                                   = e.order.quantity

C10_Witness ==
    /\ last.op = "submit"
    /\ last.quantity = 2
    /\ Len(last.reports) = 2
    /\ last.reports[1].status = "PARTIAL"
    /\ last.reports[1].quantity = 1
    /\ last.reports[2].status = "FILLED"

----------------------------------------------------------------------------
(* The prices of the orders queued in one index. *)
RestingPrices(root) ==
    UNION {{l.q[i].price : i \in 1..Len(l.q)} : l \in Levels(root)}

MaxOf(S) == IF S = {} THEN 0 ELSE CHOOSE x \in S : \A y \in S : y <= x

MinOf(S) == IF S = {} THEN 0 ELSE CHOOSE x \in S : \A y \in S : x <= y

(* C11: after any sequence of non-crossing limit adds and cancels,         *)
(* order_book_get_best_bid is the highest price among the resting buy      *)
(* orders and order_book_get_best_ask the lowest price among the resting   *)
(* sell orders, 0 when the side has none.                                  *)
C11_BestIsExtreme ==
    /\ order_book_get_best_bid(book) = MaxOf(RestingPrices(book.bids))
    /\ order_book_get_best_ask(book) = MinOf(RestingPrices(book.asks))

C11_Witness ==
    /\ last.op = "cancel"
    /\ last.ok
    /\ Cardinality(Levels(last.pre.bids)) >= 3
    /\ book.asks # NIL
    /\ order_book_get_best_bid(book) # order_book_get_best_bid(last.pre)
    /\ order_book_get_best_bid(book) > 0

(* The levels of an index, best first, as the book's users see them:      *)
(* price, cached total and queue, whatever the shape of the tree.          *)
LevelView(root) ==
    [k \in 1..Len(InOrder(root)) |->
        [price |-> InOrder(root)[k].price,
         total_quantity |-> InOrder(root)[k].total_quantity,
         q |-> InOrder(root)[k].q]]

(* Two books that differ at most in next_order_id and in the last trade. *)
SameBook(a, b) ==
    /\ LevelView(a.bids) = LevelView(b.bids)
    /\ LevelView(a.asks) = LevelView(b.asks)
    /\ a.best_bid = b.best_bid
    /\ a.best_ask = b.best_ask

(* C12: a non-crossing limit submit followed at once by the successful     *)
(* cancel of its id leaves the levels, their queues of live orders, their  *)
(* totals and the best prices as they were before the submit.              *)
C12_SubmitCancelRoundTrip ==
    [][(/\ last.op = "submit"
        /\ last.type = "LIMIT"
        /\ last.reports = <<>>
        /\ last'.op = "cancel"
        /\ last'.id = last.id
        /\ last'.ok)
           => SameBook(book', last.pre)]_vars

(* C13: cancel returns true exactly when an order that was issued the id   *)
(* is queued in the book at the call; otherwise (an id never issued, or    *)
(* one already cancelled) it returns false and leaves the book unchanged.  *)
C13_CancelFindsQueued ==
    last.op = "cancel"
        => /\ last.ok <=> \E o \in Queued(last.pre) : Abs(o.id) = last.id
           /\ ~last.ok => book = last.pre

(* What a cancel of order_id is to leave of the levels of one index: every *)
(* level without the target, its total reduced by the target's unfilled    *)
(* quantity, and no level whose queue the removal emptied.                 *)
WithoutOrder(root, order_id) ==
    LET Keep(o) == o.id # order_id
        Gone(o) == o.id = order_id
        NonEmpty(v) == v.q # <<>>
    IN SelectSeq([k \in 1..Len(InOrder(root)) |->
                     [price |-> InOrder(root)[k].price,
                      total_quantity |-> InOrder(root)[k].total_quantity
                          - SumUnfilled(SelectSeq(InOrder(root)[k].q, Gone)),
                      q |-> SelectSeq(InOrder(root)[k].q, Keep)]],
                 NonEmpty)

(* C14: a successful cancel removes only the targeted order.  Every other  *)
(* order stays alive and queued at its level in its prior FIFO order, the  *)
(* target's level total drops by the target's unfilled quantity, and a     *)
(* level disappears only if its own queue became empty.                    *)
C14_CancelRemovesOnlyTarget ==
    (last.op = "cancel" /\ last.ok)
        => /\ LevelView(book.bids) = WithoutOrder(last.pre.bids, last.id)
           /\ LevelView(book.asks) = WithoutOrder(last.pre.asks, last.id)

(* C15: for every completed submit the number of reports is even, and the  *)
(* quantities of the reports whose order_id is the incoming order's id add *)
(* up to the incoming order's filled quantity.                             *)
C15_ReportsSumToFilled ==
    last.op = "submit"
        => /\ Len(last.reports) % 2 = 0
           /\ SumTo([j \in 1..Len(last.reports) |->
                        IF last.reports[j].order_id = last.order.id
                        THEN last.reports[j].quantity ELSE 0],
                    Len(last.reports))
                = last.order.filled_qty

C15_Witness ==
    /\ last.op = "submit"
    /\ Len(last.reports) = 2
    /\ last.order.filled_qty = 2
    /\ last.order.quantity = 2

(* C16: order ids are unique within the book and issued in increasing      *)
(* order from 1: every submit, limit or market, takes the id               *)
(* next_order_id and advances the counter by one; a cancel leaves the      *)
(* counter alone; every live queued order has an id below the counter, so  *)
(* no id is issued twice.                                                  *)
C16_IdsUniqueIncreasing ==
    /\ \A l1 \in AllLevels(book), l2 \in AllLevels(book) :
         \A i \in 1..Len(l1.q), j \in 1..Len(l2.q) :
             (/\ ~l1.q[i].freed
              /\ ~l2.q[j].freed
              /\ l1.q[i].id = l2.q[j].id) => (l1 = l2 /\ i = j)
    /\ \A o \in Queued(book) : ~o.freed => (1 <= o.id /\ o.id < book.next_order_id)
    /\ last.op = "none" => book.next_order_id = 1
    /\ last.op = "submit"
         => /\ last.order.id = last.pre.next_order_id
            /\ book.next_order_id = last.pre.next_order_id + 1
    /\ last.op = "cancel" => book.next_order_id = last.pre.next_order_id

C16_Witness ==
    /\ last.op = "submit"
    /\ last.type = "MARKET"
    /\ last.order.id = 3
    /\ Queued(last.pre) = {}

----------------------------------------------------------------------------
(* The symbols an engine has a book for. *)
KnownTickers(e) == {e.books[i].ticker : i \in 1..e.num_tickers}

(* C17: for a symbol that was never added, engine_submit_order returns the *)
(* null result and engine_cancel_order returns false, and the engine with  *)
(* all its books, their next_order_id included, is as before the call.     *)
C17_UnknownSymbol ==
    (/\ elast.op \in {"submit", "cancel"}
     /\ elast.ticker \notin KnownTickers(elast.pre))
        => /\ ~elast.ret
           /\ engine = elast.pre

C17_Witness ==
    /\ elast.op = "submit"
    /\ elast.ticker \notin KnownTickers(elast.pre)
    /\ \E i \in 1..elast.pre.num_tickers :
         elast.pre.books[i].book.next_order_id > 1

(* C18: engine_add_ticker returns false for a symbol that has a book, or   *)
(* when MAX_TICKERS (16) books exist, and then leaves num_tickers and      *)
(* every book as it was; otherwise it returns true and appends exactly one *)
(* empty book whose last trade price is the initial price.                 *)
C18_AddTicker ==
    elast.op = "add"
        => IF \/ elast.ticker \in KnownTickers(elast.pre)
              \/ elast.pre.num_tickers >= 16
           THEN /\ ~elast.ret
                /\ engine = elast.pre
           ELSE /\ elast.ret
                /\ engine.num_tickers = elast.pre.num_tickers + 1
                /\ Len(engine.books) = engine.num_tickers
                /\ SubSeq(engine.books, 1, elast.pre.num_tickers) = elast.pre.books
                /\ engine.books[engine.num_tickers]
                     = [ticker |-> elast.ticker,
                        book |-> [bids |-> NIL, asks |-> NIL, next_order_id |-> 1,
                                  best_bid |-> 0, best_ask |-> 0,
                                  last_trade_price |-> elast.initial_price,
                                  last_trade_qty |-> 0]]

C18_Witness ==
    /\ elast.op = "add"
    /\ ~elast.ret
    /\ elast.pre.num_tickers = 16
    /\ elast.ticker \notin KnownTickers(elast.pre)
    /\ \E i \in 1..elast.pre.num_tickers :
         elast.pre.books[i].book.last_trade_price # 1

----------------------------------------------------------------------------
(* The number of queued orders of an index that still have unfilled        *)
(* quantity.                                                               *)
RestingCount(root) ==
    SumTo([k \in 1..Len(InOrder(root)) |->
              Len(SelectSeq(InOrder(root)[k].q,
                            LAMBDA o : o.filled_qty < o.quantity))],
          Len(InOrder(root)))

(* C19: every tick cancels the quotes the agent left resting before it     *)
(* places new ones: after a tick the agent's book holds at most num_levels *)
(* resting bids and num_levels resting asks.                               *)
C19_AtMostLatestQuotes ==
    last.op = "tick"
        => /\ RestingCount(book.bids) <= mm.num_levels
           /\ RestingCount(book.asks) <= mm.num_levels

----------------------------------------------------------------------------
(* The gates a thread holds. *)
HoldsBookGate(t) == \E b \in 1..NumBooks : thr.gate[b] = t

HoldsSessionGate(t) == thr.clients_lock = t

(* A thread that waits for a gate some thread holds. *)
Waits(t) ==
    IF t = "sim"
    THEN \/ thr.pc.sim \in {"mm", "snap"} /\ thr.gate[thr.k] # "none"
         \/ thr.pc.sim = "bcast" /\ thr.clients_lock # "none"
    ELSE \/ thr.pc.net = "engine" /\ thr.gate[thr.nb] # "none"
         \/ thr.pc.net \in {"accept", "disc"} /\ thr.clients_lock # "none"

(* C20: no thread holds a book gate and the session table's gate at the    *)
(* same time, and the two threads never wait for each other.               *)
C20_GatesNeverNested ==
    /\ \A t \in {"sim", "net"} : ~(HoldsBookGate(t) /\ HoldsSessionGate(t))
    /\ ~(Waits("sim") /\ Waits("net"))

C20_Witness ==
    /\ thr.pc.sim = "bcast_in"
    /\ thr.pc.net = "engine_in"
    /\ thr.connected[1]

----------------------------------------------------------------------------
(* C21: a market-data snapshot is read with the book's gate held: while    *)
(* the simulation thread reads, no operation of the network thread on that *)
(* book is half done and none completes between the two reads, so the      *)
(* snapshot handed to the broadcast shows the book as it was at one        *)
(* instant between operations (best prices and last trade of the same      *)
(* count of operations).                                                   *)
C21_SnapshotAtOneInstant ==
    /\ thr.pc.sim \in {"snap_in", "snap_trade"} =>
           /\ thr.gate[thr.k] = "sim"
           /\ thr.seq[thr.k].quote = thr.seq[thr.k].trade
    /\ thr.pc.sim = "snap_trade" => thr.update.quote = thr.seq[thr.k].quote
    /\ thr.pc.sim \in {"bcast", "bcast_in"} => thr.update.quote = thr.update.trade

(* A snapshot taken after one operation, while the network thread is in    *)
(* the middle of the next operation on the same book.                      *)
C21_Witness ==
    /\ thr.pc.sim = "bcast"
    /\ thr.update = [quote |-> 1, trade |-> 1]
    /\ thr.pc.net = "engine_match"
    /\ thr.nb = thr.k

----------------------------------------------------------------------------
(* C22: no thread writes to a socket while it holds a book's gate: the     *)
(* network thread sends reports and errors after its engine call has       *)
(* released the gate, the simulation thread broadcasts after the gate of   *)
(* the snapshot's book has been released.                                  *)
C22_NoSendUnderBookGate ==
    /\ thr.pc.net = "send" => ~HoldsBookGate("net")
    /\ thr.pc.sim = "bcast_in" => ~HoldsBookGate("sim")

(* Both threads write at once: the network thread sends after an operation *)
(* while the broadcast has written its frame to the first session.         *)
C22_Witness ==
    /\ thr.pc.net = "send"
    /\ thr.pc.sim = "bcast_in"
    /\ thr.frames[1] = 1

----------------------------------------------------------------------------
(* C23: the execution reports of an ORDER_NEW line are written to the      *)
(* session the line came from and to no other, each once, in the order the *)
(* engine returned them.                                                   *)
C23_ReportsToOriginator ==
    nlast.op = "data" /\ nlast.line.type = "ORDER_NEW" =>
        /\ Len(nlast.sent) = Len(nlast.reports)
        /\ \A i \in 1..Len(nlast.sent) :
              /\ nlast.sent[i].to = nlast.client_idx
              /\ nlast.sent[i].socket = nlast.sock
              /\ nlast.sent[i].frame.type = "EXECUTION_REPORT"
              /\ nlast.sent[i].frame.order_id = nlast.reports[i].order_id
              /\ nlast.sent[i].frame.match_id = nlast.reports[i].match_id
              /\ nlast.sent[i].frame.price = nlast.reports[i].price
              /\ nlast.sent[i].frame.quantity = nlast.reports[i].quantity
              /\ nlast.sent[i].frame.status = nlast.reports[i].status

(* An order of the second session that fills against two resting orders:   *)
(* four reports.                                                           *)
C23_Witness ==
    /\ nlast.op = "data"
    /\ nlast.line.type = "ORDER_NEW"
    /\ nlast.client_idx = 2
    /\ Len(nlast.reports) = 4
    /\ Len(nlast.sent) = 4
    /\ nlast.reports[1].match_id # nlast.reports[3].match_id

----------------------------------------------------------------------------
(* C24: for an ORDER_CANCEL line the session the line came from is sent    *)
(* one ERROR message "Order not found" when the engine's cancel returned   *)
(* false, and nothing when it returned true.                               *)
C24_CancelReply ==
    nlast.op = "data" /\ nlast.line.type = "ORDER_CANCEL" =>
        IF nlast.ret
        THEN nlast.sent = <<>>
        ELSE /\ Len(nlast.sent) = 1
             /\ nlast.sent[1].to = nlast.client_idx
             /\ nlast.sent[1].socket = nlast.sock
             /\ nlast.sent[1].frame.type = "ERROR"
             /\ nlast.sent[1].frame.message = "Order not found"

(* The second session cancels an id that does not rest in a listed book    *)
(* that holds another order.                                               *)
C24_Witness ==
    /\ nlast.op = "data"
    /\ nlast.line.type = "ORDER_CANCEL"
    /\ nlast.line.ticker = "AAPL"
    /\ nlast.client_idx = 2
    /\ ~nlast.ret
    /\ Len(nlast.sent) = 1
    /\ engine.books[1].book.bids # NIL

----------------------------------------------------------------------------
(* The message types of the protocol, and the input errors of a line:      *)
(* text that is not JSON, a missing or unknown message type, an order for  *)
(* a symbol that is not listed, a cancel the engine refused.               *)
MessageTypes ==
    {"ORDER_NEW", "ORDER_CANCEL", "MARKET_DATA", "EXECUTION_REPORT",
     "PORTFOLIO_SYNC", "ERROR", "HEARTBEAT"}

InputError(l) ==
    \/ ~l.line.json
    \/ l.line.type \notin MessageTypes
    \/ l.line.type = "ORDER_NEW" /\ l.line.ticker \notin KnownTickers(engine)
    \/ l.line.type = "ORDER_CANCEL" /\ ~l.ret

(* C25: every input error is answered with an ERROR message to the session *)
(* the line came from, and that session stays connected.                   *)
C25_InputErrorAnswered ==
    nlast.op = "data" /\ nlast.recv = "line" /\ InputError(nlast) =>
        /\ \E i \in 1..Len(nlast.sent) :
              /\ nlast.sent[i].to = nlast.client_idx
              /\ nlast.sent[i].frame.type = "ERROR"
        /\ net.clients[nlast.client_idx].connected

----------------------------------------------------------------------------
(* C26: when every slot of the session table is connected, a newly         *)
(* accepted connection is closed at once and the table (slots, sockets,    *)
(* num_clients) is as before; the sockets of the sessions stay open.       *)
C26_FullTableRejects ==
    (nlast.op = "accept" /\ \A x \in 1..MaxSessions : nlast.pre.clients[x].connected) =>
        /\ net.clients = nlast.pre.clients
        /\ net.num_clients = nlast.pre.num_clients
        /\ nlast.sock \notin net.open
        /\ net.open = nlast.pre.open

C26_Witness ==
    /\ nlast.op = "accept"
    /\ \A x \in 1..MaxSessions : nlast.pre.clients[x].connected
    /\ net.num_clients = MaxSessions
    /\ Cardinality(net.open) = MaxSessions

----------------------------------------------------------------------------
(* A transport error of the handled session: recv returned 0, or a write   *)
(* to its socket failed.                                                   *)
TransportError(l) ==
    \/ l.recv = "closed"
    \/ \E i \in 1..Len(l.sent) : ~l.sent[i].delivered

(* C27: a transport error on a session closes that session and leaves      *)
(* every other session as it was.                                          *)
C27_TransportErrorClosesSession ==
    nlast.op = "data" /\ TransportError(nlast) =>
        /\ ~net.clients[nlast.client_idx].connected
        /\ nlast.sock \notin net.open
        /\ \A x \in 1..MaxSessions \ {nlast.client_idx} :
              net.clients[x] = nlast.pre.clients[x]

----------------------------------------------------------------------------
(* C28: a broadcast runs with the session table's gate held and writes the *)
(* frame once to every connected session: at each point of the iteration   *)
(* the slots passed that are connected have one frame and all others none, *)
(* the table does not change under it, and no frame is ever written to a   *)
(* slot whose socket is closed or whose fields are not all set.            *)
C28_BroadcastOncePerSession ==
    /\ ~thr.stale
    /\ thr.pc.sim = "bcast_in" =>
           /\ thr.clients_lock = "sim"
           /\ \A x \in 1..MaxSessions :
                 thr.frames[x] = IF x < thr.bi /\ thr.connected[x] THEN 1 ELSE 0
           /\ \A x \in 1..MaxSessions :
                 thr.connected[x] => thr.socket[x] = "open" /\ thr.ready[x]

(* The end of a broadcast to two sessions while the network thread waits   *)
(* to disconnect one of them.                                              *)
C28_Witness ==
    /\ thr.pc.sim = "bcast_in"
    /\ thr.bi > MaxSessions
    /\ \A x \in 1..MaxSessions : thr.frames[x] = 1
    /\ thr.pc.net = "disc"

----------------------------------------------------------------------------
(* C29: once the signal has cleared the run flag, the simulation thread    *)
(* and the network thread both leave their loops, given that every thread  *)
(* that can step does; and main destroys the agent pool, the server and    *)
(* the books only after both have.                                         *)
C29_ShutdownDrains ==
    /\ (~thr.g_running) ~> (thr.pc.sim = "exit" /\ thr.pc.net = "exit")
    /\ [](thr.destroyed => thr.pc.sim = "exit" /\ thr.pc.net = "exit")

(* The cleanup has run after a shutdown with a session connected: its      *)
(* socket was closed by network_server_stop.                               *)
C29_Witness ==
    /\ ~thr.g_running
    /\ thr.pc.main = "done"
    /\ thr.destroyed
    /\ thr.socket[1] = "closed"

----------------------------------------------------------------------------
(* C30: two runs that seed the generator alike and make the same calls get *)
(* the same values: after every call both runs have returned the same      *)
(* value, whatever the clock of each run shows.                            *)
C30_SeedDeterminism == rng.run[1].out = rng.run[2].out

(* C31: after every gbm_next_price the model's current price and the value *)
(* returned are at least 0.01, whatever positive S0 the model was created  *)
(* with and whatever the product of line 720 was.                          *)
C31_PriceFloor ==
    \A r \in 1..2 :
        (rng.run[r].model.created /\ rng.run[r].model.path # <<>>)
            => /\ rng.run[r].model.current_price >= PRICE_FLOOR
               /\ rng.run[r].out.kind = "price"
                    => rng.run[r].out.price >= PRICE_FLOOR

(* A step from a price above 0.01 whose product fell below 0.01 and was    *)
(* raised.                                                                 *)
C31_Witness ==
    \E r \in 1..2 :
        /\ rng.run[r].model.created
        /\ rng.run[r].out.kind = "price"
        /\ rng.run[r].model.product < PRICE_FLOOR
        /\ rng.run[r].model.S0 > PRICE_FLOOR
        /\ rng.run[r].out.price = PRICE_FLOOR

(* C32: order_book_get_bids / order_book_get_asks with the limit max       *)
(* return count = min(max, number of levels of the side) and exactly the   *)
(* first count levels of the side in traversal order, and leave the book   *)
(* as it was.                                                              *)
C32_LevelsUpToMax ==
    (last.op = "get_levels" /\ ~aborted)
        => /\ last.count = Min(last.max_levels,
                               Len(InOrder(side_root(last.pre, last.is_bid))))
           /\ last.levels = SubSeq(LevelView(side_root(last.pre, last.is_bid)),
                                   1, last.count)
           /\ book = last.pre

(* C33: every execution report of a submit has quantity >= 1, and a submit *)
(* that reported fills leaves a last trade quantity >= 1.                  *)
C33_NoZeroFill ==
    (last.op = "submit" /\ last.reports # <<>>)
        => /\ \A k \in 1..Len(last.reports) : last.reports[k].quantity >= 1
           /\ book.last_trade_qty >= 1

(* C34: after every add, cancel and match the cached best_bid is the price *)
(* of the leftmost level of the bid index, 0 when the index is empty, and  *)
(* the cached best_ask likewise for the ask index.                         *)
C34_CachedBest ==
    /\ book.best_bid = best_price_of(avl_get_best(book.bids))
    /\ book.best_ask = best_price_of(avl_get_best(book.asks))

(* A buy that traded the best ask level away: the cached best ask changed  *)
(* with the index, and the cached best bid is that of the buy now resting. *)
C34_Witness ==
    /\ last.op = "submit"
    /\ last.side = "BUY"
    /\ last.reports # <<>>
    /\ last.pre.best_ask > 0
    /\ book.best_ask = 0
    /\ book.best_bid = last.price
    /\ last.pre.best_bid # last.price

(* The orders that exist: those queued in the book and not released, and   *)
(* the order of the last submit unless it was released.                    *)
LiveOrders ==
    {o \in Queued(book) : ~o.freed}
        \cup (IF last.op = "submit" /\ ~last.order.freed THEN {last.order} ELSE {})

(* The part of C35 the specification states as the order's invariant. *)
FilledIffComplete ==
    \A o \in LiveOrders :
        /\ o.filled_qty <= o.quantity
        /\ (o.status = "FILLED") <=> (o.filled_qty = o.quantity)

(* C35: for every order filled_qty <= quantity, its status is FILLED       *)
(* exactly when filled_qty = quantity, and an order matched in part (some  *)
(* but not all of its quantity filled) is PARTIAL.                         *)
C35_OrderStatus ==
    \A o \in LiveOrders :
        /\ o.filled_qty <= o.quantity
        /\ (o.status = "FILLED") <=> (o.filled_qty = o.quantity)
        /\ (0 < o.filled_qty /\ o.filled_qty < o.quantity) => o.status = "PARTIAL"

RECURSIVE Height(_)
Height(node) ==
    IF node = NIL THEN 0
    ELSE 1 + (IF Height(node.left) > Height(node.right)
              THEN Height(node.left) ELSE Height(node.right))

(* Every level reached to the left of a node precedes it in the side's     *)
(* order (bids: higher price; asks: lower price), every level to the right *)
(* follows it; no price occurs twice.                                      *)
Precedes(is_bid, p, q) == IF is_bid THEN p > q ELSE p < q

RECURSIVE IsSearchTree(_, _)
IsSearchTree(node, is_bid) ==
    \/ node = NIL
    \/ /\ \A l \in Levels(node.left) : Precedes(is_bid, l.price, node.price)
       /\ \A r \in Levels(node.right) : Precedes(is_bid, node.price, r.price)
       /\ IsSearchTree(node.left, is_bid)
       /\ IsSearchTree(node.right, is_bid)

RECURSIVE IsBalanced(_)
IsBalanced(node) ==
    \/ node = NIL
    \/ /\ node.height = Height(node)
       /\ Height(node.left) - Height(node.right) \in {-1, 0, 1}
       /\ IsBalanced(node.left)
       /\ IsBalanced(node.right)

(* The deepest the stack of the walk in order_book_cancel_order gets. *)
WalkStack == 64

(* C36: each side index is a search tree in its orientation without a      *)
(* duplicate price, every stored height is the node's height, every        *)
(* balance factor is -1, 0 or 1, and the in-order walk of cancel needs at  *)
(* most 64 stack entries.                                                  *)
C36_IndexIsAvl ==
    /\ IsSearchTree(book.bids, TRUE)
    /\ IsSearchTree(book.asks, FALSE)
    /\ IsBalanced(book.bids)
    /\ IsBalanced(book.asks)
    /\ Height(book.bids) <= WalkStack
    /\ Height(book.asks) <= WalkStack

(* A cancel that emptied a level of a four-level index and left an index   *)
(* of three levels under another root.                                     *)
C36_Witness ==
    /\ last.op = "cancel"
    /\ last.ok
    /\ Cardinality(Levels(last.pre.bids)) = 4
    /\ Cardinality(Levels(book.bids)) = 3
    /\ book.bids.price # last.pre.bids.price
    /\ Height(book.bids) = 2

(* C37: num_clients is the number of slots marked connected and lies in    *)
(* 0..MAX_CLIENTS (here the table has MaxSessions slots) after every       *)
(* accept, disconnect and stop; a disconnect of a slot that is not         *)
(* connected changes nothing.                                              *)
C37_ClientCount ==
    /\ net.num_clients = Cardinality({x \in 1..MaxSessions : net.clients[x].connected})
    /\ net.num_clients \in 0..MaxSessions
    /\ (nlast.op = "disconnect" /\ ~nlast.pre.clients[nlast.client_idx].connected)
           => net = nlast.pre

(* A slot that is not connected is disconnected while the other slot holds *)
(* a session.                                                              *)
C37_Witness ==
    /\ nlast.op = "disconnect"
    /\ ~nlast.pre.clients[nlast.client_idx].connected
    /\ nlast.pre.num_clients >= 1
    /\ net.num_clients >= 1

(* C38: a submit or cancel on one symbol leaves the book of every other    *)
(* symbol as it was (levels, queued orders, best prices, last trade, id    *)
(* counter), and locks no book but the one of its symbol.                  *)
C38_OtherBooksUntouched ==
    elast.op \in {"submit", "cancel"}
        => /\ engine.num_tickers = elast.pre.num_tickers
           /\ \A i \in 1..elast.pre.num_tickers :
                  elast.pre.books[i].ticker # elast.ticker
                      => engine.books[i] = elast.pre.books[i]
           /\ \A idx \in elast.locked :
                  elast.pre.books[idx + 1].ticker = elast.ticker

(* A submit that changed the second book while the first book holds an     *)
(* order.                                                                  *)
C38_Witness ==
    /\ elast.op = "submit"
    /\ elast.ret
    /\ elast.pre.num_tickers >= 2
    /\ elast.pre.books[2].ticker = elast.ticker
    /\ engine.books[2] # elast.pre.books[2]
    /\ elast.pre.books[1].book.bids # NIL
    /\ elast.locked = {1}

(* The last trade of book b after an operation on the book pre that        *)
(* returned reports: that of the last report, or that of pre if there is   *)
(* no report.                                                              *)
LastTradeFollows(pre, b, reports) ==
    IF reports # <<>>
    THEN /\ b.last_trade_price = reports[Len(reports)].price
         /\ b.last_trade_qty = reports[Len(reports)].quantity
    ELSE /\ b.last_trade_price = pre.last_trade_price
         /\ b.last_trade_qty = pre.last_trade_qty

Fits(m) == Len(m) + 1 <= BufferSize - 1

(* A line that was dispatched as it arrived and fits the buffer. *)
IntactFit(l) == Fits(l) /\ \E k \in 1..Len(rx.arrived) : rx.arrived[k] = l

(* C40: buffer_len stays within 0..RECV_BUFFER_SIZE - 1, and once the      *)
(* handler has returned, every message received with its newline that fits *)
(* the buffer has been dispatched, whole and in the order of arrival,      *)
(* whatever lines came before it.                                          *)
C40_LinesDispatched ==
    /\ buffer_len(rx) \in 0..(BufferSize - 1)
    /\ SelectSeq(rx.dispatched, IntactFit) = SelectSeq(rx.arrived, Fits)

(* The bound on buffer_len alone. *)
BufferLenInRange == buffer_len(rx) \in 0..(BufferSize - 1)

====
